---------------------------- MODULE Spec2Model ----------------------------
(***************************************************************************)
(* The privileged execution session of steamos-mount: the wire protocol    *)
(* (packages/core/src/protocol.rs), the daemon request loop                *)
(* (apps/cli/src/daemon.rs) and the client Session / Execution Context     *)
(* (packages/core/src/executor.rs).                                        *)
(*                                                                         *)
(* Text is modelled as a sequence of characters, a character being a TLA+  *)
(* string.  A JSON object is the sequence of its members, a member the     *)
(* sequence <<key, type, value...>> with type "s" (string) or "a" (array   *)
(* of strings).  HMAC-SHA256 is modelled as an ideal keyed function: the   *)
(* digest of (key, message) is the byte string key \o message, which       *)
(* differs whenever key (of the fixed length SECRET_LENGTH) or message     *)
(* differ.                                                                 *)
(***************************************************************************)
EXTENDS Integers, Sequences, FiniteSets, TLC

VARIABLES
    daemons,    \* the spawned daemon processes, in spawn order
    ctx,        \* the ExecutionContext: escalation, session, spawner
    threads,    \* the caller threads: position in a verb and its locals
    borrow,     \* the thread holding the exclusive (&mut) borrow of ctx, or 0
    lock,       \* the thread holding the guard of ctx.session's Mutex, or 0
    hist        \* observations: what was spawned, sent, run directly, fed

vars == <<daemons, ctx, threads, borrow, lock, hist>>

---------------------------------------------------------------------------
(* Bounds of the model *)

\* Largest request id an arbitrary input line carries.
MaxId == 3
\* Number of input lines an arbitrary writer feeds to a daemon.
MaxLines == 4
\* Number of verb calls made on the Execution Context.
MaxOps == 3
\* Number of request lines interfered with on their way to a daemon.
MaxTampers == 1
\* Number of request lines that reach two daemons side by side.
MaxPairLines == 3
\* Number of lines of an fstab file before its first rewriting.
MaxFstabLines == 4
\* Number of times the managed block of one fstab file is rewritten.
MaxWrites == 3

---------------------------------------------------------------------------
(* protocol.rs: secret, hex, HMAC *)

SECRET_LENGTH == 32

\* generate_secret: the values the random generator is taken to return.
Secrets ==
    << [i \in 1..SECRET_LENGTH |-> i - 1],
       [i \in 1..SECRET_LENGTH |-> 256 - i] >>

generate_secret == { Secrets[i] : i \in 1..Len(Secrets) }

HexDigits == <<"0","1","2","3","4","5","6","7","8","9","a","b","c","d","e","f">>

\* hex::encode: two lowercase digits per byte, high nibble first.
hex_encode(bytes) ==
    [i \in 1..(2 * Len(bytes)) |->
        LET b == bytes[(i + 1) \div 2]
        IN  IF (i % 2) = 1 THEN HexDigits[(b \div 16) + 1] ELSE HexDigits[(b % 16) + 1]]

HexVal(c) ==
    IF \E i \in 1..16 : HexDigits[i] = c
    THEN (CHOOSE i \in 1..16 : HexDigits[i] = c) - 1
    ELSE -1

\* hex::decode's Err.
HexError == <<-1>>

hex_decode_LowNibbleFirst(text) ==
    IF (Len(text) % 2) # 0 \/ \E i \in 1..Len(text) : HexVal(text[i]) < 0
    THEN HexError
    ELSE [i \in 1..(Len(text) \div 2) |->
            (HexVal(text[2 * i]) * 16) + HexVal(text[(2 * i) - 1])]

\* hex::decode: Err on odd length or a non-hex digit.
hex_decode(text) ==
    IF (Len(text) % 2) # 0 \/ \E i \in 1..Len(text) : HexVal(text[i]) < 0
    THEN HexError
    ELSE [i \in 1..(Len(text) \div 2) |->
            (HexVal(text[(2 * i) - 1]) * 16) + HexVal(text[2 * i])]

\* The n low bytes of id, lowest first.
RECURSIVE LowBytes(_, _)
LowBytes(id, n) ==
    IF n = 0 THEN <<>> ELSE <<id % 256>> \o LowBytes(id \div 256, n - 1)

\* u64::to_le_bytes
to_le_bytes(id) == LowBytes(id, 8)

\* The characters of the model's texts and their byte codes (str::as_bytes).
Alphabet ==
    << "cmd", "s", "a", "exec", "write_file", "copy_file", "mkdir_p", "shutdown",
       "program", "args", "path", "content", "src", "dst", "reboot",
       "mount", "-a", "/etc/fstab", "UUID=1 /mnt ntfs", "/etc/fstab.bak", "/mnt/disk" >>

ByteOf(c) == CHOOSE i \in 1..Len(Alphabet) : Alphabet[i] = c

\* The bytes of a JSON text: each member's characters, a 0 byte closing the member.
RECURSIVE as_bytes(_)
as_bytes(json) ==
    IF json = <<>> THEN <<>>
    ELSE [i \in 1..Len(Head(json)) |-> ByteOf(Head(json)[i])] \o <<0>> \o as_bytes(Tail(json))

\* HmacSha256::new_from_slice(key), update(..)*, finalize: the ideal keyed digest.
HmacSha256(key, message) == key \o message

compute_hmac_IgnoresId(secret, id, payload) ==
    CHOOSE text \in { hex_encode(mac) : mac \in {HmacSha256(secret, as_bytes(payload))} } : TRUE

\* compute_hmac: mac, the finalized digest, is hex-encoded.
compute_hmac(secret, id, payload) ==
    CHOOSE text \in { hex_encode(mac) :
                        mac \in {HmacSha256(secret, to_le_bytes(id) \o as_bytes(payload))} } : TRUE

Bit(x, k) == (x \div (2 ^ k)) % 2

\* The byte with the given bits, bits being a function on 0..7.
RECURSIVE FromBits(_, _)
FromBits(bits, k) ==
    IF k > 7 THEN 0 ELSE (bits[k] * (2 ^ k)) + FromBits(bits, k + 1)

\* str::bytes of a signature: the ASCII byte of each hex digit; the other
\* characters of the model's alphabet get bytes above them.
CharBytes ==
    [c \in { HexDigits[i] : i \in 1..16 } \cup { Alphabet[i] : i \in 1..Len(Alphabet) } |->
        IF HexVal(c) >= 0
        THEN (IF HexVal(c) < 10 THEN 48 + HexVal(c) ELSE 87 + HexVal(c))
        ELSE 128 + ByteOf(c)]

\* a.bytes().zip(b.bytes()).fold(0, |acc, (a, b)| acc | (a ^ b)): bit k of
\* the result is set when bit k of some a[i] ^ b[i] is, that is when bit k
\* of a[i] and of b[i] differ (which equal characters never do).
FoldXor(a, b) ==
    FromBits([k \in 0..7 |->
                IF \E i \in 1..(IF Len(a) < Len(b) THEN Len(a) ELSE Len(b)) :
                      a[i] # b[i] /\ Bit(CharBytes[a[i]], k) # Bit(CharBytes[b[i]], k)
                THEN 1 ELSE 0], 0)

constant_time_eq_NoLengthCheck(a, b) == FoldXor(a, b) = 0

constant_time_eq_FirstByteOnly(a, b) ==
    IF Len(a) # Len(b) THEN FALSE
    ELSE FoldXor(SubSeq(a, 1, 1), SubSeq(b, 1, 1)) = 0

\* constant_time_eq
constant_time_eq(a, b) ==
    IF Len(a) # Len(b) THEN FALSE
    ELSE FoldXor(a, b) = 0

\* verify_hmac: `let expected = compute_hmac(..)`, compared to the signature.
verify_hmac(secret, id, payload, signature) ==
    \E expected \in {compute_hmac(secret, id, payload)} :
        \E given \in {signature} : constant_time_eq(expected, given)

---------------------------------------------------------------------------
(* protocol.rs: DaemonCommand, DaemonRequest, DaemonResponse and their JSON *)

None == <<>>
Some(x) == <<x>>

\* DaemonCommand: the five variants, as one record shape.
Exec(program, args) == [tag |-> "Exec", s1 |-> program, s2 |-> "", args |-> args]
WriteFile(path, content) == [tag |-> "WriteFile", s1 |-> path, s2 |-> content, args |-> <<>>]
CopyFile(src, dst) == [tag |-> "CopyFile", s1 |-> src, s2 |-> dst, args |-> <<>>]
MkdirP(path) == [tag |-> "MkdirP", s1 |-> path, s2 |-> "", args |-> <<>>]
Shutdown == [tag |-> "Shutdown", s1 |-> "", s2 |-> "", args |-> <<>>]

\* The value a failed deserialization is modelled by.
ParseError == [tag |-> "Err", s1 |-> "", s2 |-> "", args |-> <<>>]

\* serde_json::to_string(&DaemonCommand): internally tagged by "cmd",
\* variant names in snake_case, fields in declaration order.
to_json(cmd) ==
    CASE cmd.tag = "Exec" ->
           << <<"cmd", "s", "exec">>, <<"program", "s", cmd.s1>>, <<"args", "a">> \o cmd.args >>
      [] cmd.tag = "WriteFile" ->
           << <<"cmd", "s", "write_file">>, <<"path", "s", cmd.s1>>, <<"content", "s", cmd.s2>> >>
      [] cmd.tag = "CopyFile" ->
           << <<"cmd", "s", "copy_file">>, <<"src", "s", cmd.s1>>, <<"dst", "s", cmd.s2>> >>
      [] cmd.tag = "MkdirP" ->
           << <<"cmd", "s", "mkdir_p">>, <<"path", "s", cmd.s1>> >>
      [] OTHER ->
           << <<"cmd", "s", "shutdown">> >>

HasField(json, key, type) ==
    \E i \in 1..Len(json) : json[i][1] = key /\ json[i][2] = type /\ (type = "s" => Len(json[i]) = 3)

Field(json, key, type) ==
    LET i == CHOOSE j \in 1..Len(json) : json[j][1] = key /\ json[j][2] = type
    IN  IF type = "s" THEN json[i][3] ELSE SubSeq(json[i], 3, Len(json[i]))

from_json_KebabCase(json) ==
    IF ~HasField(json, "cmd", "s") THEN ParseError
    ELSE LET tag == Field(json, "cmd", "s") IN
         CASE tag = "exec" /\ HasField(json, "program", "s") /\ HasField(json, "args", "a") ->
                Exec(Field(json, "program", "s"), Field(json, "args", "a"))
           [] tag = "write-file" /\ HasField(json, "path", "s") /\ HasField(json, "content", "s") ->
                WriteFile(Field(json, "path", "s"), Field(json, "content", "s"))
           [] tag = "copy-file" /\ HasField(json, "src", "s") /\ HasField(json, "dst", "s") ->
                CopyFile(Field(json, "src", "s"), Field(json, "dst", "s"))
           [] tag = "mkdir-p" /\ HasField(json, "path", "s") ->
                MkdirP(Field(json, "path", "s"))
           [] tag = "shutdown" ->
                Shutdown
           [] OTHER -> ParseError

\* serde_json::from_str::<DaemonCommand>: members are found by key in any
\* order, unknown members are ignored, a missing or mistyped member or an
\* unknown "cmd" value is an error.
from_json(json) ==
    IF ~HasField(json, "cmd", "s") THEN ParseError
    ELSE LET tag == Field(json, "cmd", "s") IN
         CASE tag = "exec" /\ HasField(json, "program", "s") /\ HasField(json, "args", "a") ->
                Exec(Field(json, "program", "s"), Field(json, "args", "a"))
           [] tag = "write_file" /\ HasField(json, "path", "s") /\ HasField(json, "content", "s") ->
                WriteFile(Field(json, "path", "s"), Field(json, "content", "s"))
           [] tag = "copy_file" /\ HasField(json, "src", "s") /\ HasField(json, "dst", "s") ->
                CopyFile(Field(json, "src", "s"), Field(json, "dst", "s"))
           [] tag = "mkdir_p" /\ HasField(json, "path", "s") ->
                MkdirP(Field(json, "path", "s"))
           [] tag = "shutdown" ->
                Shutdown
           [] OTHER -> ParseError

\* A line of the daemon's input.  An "object" line is a JSON object with a
\* numeric "id" and a string "hmac"; members holds its other members.  A
\* "not_utf8" line is bytes that are no UTF-8 text.
RequestLine(id, hmac, members) == [kind |-> "object", id |-> id, hmac |-> hmac, members |-> members]
BlankLine == [kind |-> "blank", id |-> 0, hmac |-> <<>>, members |-> <<>>]
GarbageLine == [kind |-> "garbage", id |-> 0, hmac |-> <<>>, members |-> <<>>]
NotUtf8Line == [kind |-> "not_utf8", id |-> 0, hmac |-> <<>>, members |-> <<>>]

\* DaemonRequest { id, hmac, #[serde(flatten)] cmd }
DaemonRequest(id, hmac, cmd) == [id |-> id, hmac |-> hmac, cmd |-> cmd]

BadRequest == DaemonRequest(-1, <<>>, ParseError)

\* serde_json::to_string(&DaemonRequest)
request_to_line(request) == RequestLine(request.id, request.hmac, to_json(request.cmd))

\* serde_json::from_str::<DaemonRequest>(&line)
request_from_line(line) ==
    IF line.kind # "object" \/ line.id < 0 THEN BadRequest
    ELSE IF from_json(line.members) = ParseError THEN BadRequest
    ELSE DaemonRequest(line.id, line.hmac, from_json(line.members))

\* A line of the daemon's output: the handshake or a response.
HandshakeLine(secret) ==
    [type |-> "handshake", secret |-> secret, id |-> 0, success |-> FALSE,
     exit_code |-> 0, stdout |-> "", stderr |-> "", error |-> None]

\* DaemonResponse
DaemonResponse(id, success, exit_code, stdout, stderr, error) ==
    [type |-> "response", secret |-> <<>>, id |-> id, success |-> success,
     exit_code |-> exit_code, stdout |-> stdout, stderr |-> stderr, error |-> error]

\* The value a failed deserialization of a response is modelled by.
BadResponse ==
    [type |-> "invalid", secret |-> <<>>, id |-> 0, success |-> FALSE,
     exit_code |-> 0, stdout |-> "", stderr |-> "", error |-> None]

\* serde_json::to_string(&DaemonResponse): the fields in declaration order,
\* a number as "n", a boolean as "b", None as null.
response_to_json(response) ==
    << <<"id", "n", response.id>>,
       <<"success", "b", response.success>>,
       <<"exit_code", "n", response.exit_code>>,
       <<"stdout", "s", response.stdout>>,
       <<"stderr", "s", response.stderr>>,
       IF response.error = None THEN <<"error", "null">>
       ELSE <<"error", "s", response.error[1]>> >>

\* serde_json::from_str::<DaemonResponse>: id and success are required, a
\* missing exit_code, stdout, stderr or error takes its default, a member
\* of another type is an error.
response_from_json(json) ==
    LET Has(key, types) == \E i \in 1..Len(json) : json[i][1] = key /\ json[i][2] \in types
        Of(key) == json[CHOOSE i \in 1..Len(json) : json[i][1] = key]
        Absent(key) == \A i \in 1..Len(json) : json[i][1] # key
        Default(key, type, default) ==
            IF Absent(key) THEN default
            ELSE IF Of(key)[2] = "null" THEN None
            ELSE IF type = "o" THEN Some(Of(key)[3])
            ELSE Of(key)[3]
    IN  IF \/ ~Has("id", {"n"}) \/ ~Has("success", {"b"})
           \/ ~(Absent("exit_code") \/ Has("exit_code", {"n"}))
           \/ ~(Absent("stdout") \/ Has("stdout", {"s"}))
           \/ ~(Absent("stderr") \/ Has("stderr", {"s"}))
           \/ ~(Absent("error") \/ Has("error", {"s", "null"}))
           \/ (Has("id", {"n"}) /\ Of("id")[3] < 0)
        THEN BadResponse
        ELSE DaemonResponse(Of("id")[3], Of("success")[3],
                            Default("exit_code", "n", 0), Default("stdout", "s", ""),
                            Default("stderr", "s", ""), Default("error", "o", None))

success_response_StaleId(id) == DaemonResponse(id - 1, TRUE, 0, "", "", None)

\* fn success_response
success_response(id) == DaemonResponse(id, TRUE, 0, "", "", None)

\* fn error_response
error_response(id, message) == DaemonResponse(id, FALSE, -1, "", "", Some(message))

\* The error texts, as their words.
ReplayMessage == <<"Replay", "attack", "detected:", "ID", "<=", "last", "ID">>
HmacMessage == <<"HMAC", "authentication", "failed">>
ExecFailedMessage == <<"Failed", "to", "execute", "command:", "os", "error">>
WriteFailedMessage == <<"Failed", "to", "write", "file:", "os", "error">>
CopyFailedMessage == <<"Failed", "to", "copy", "file:", "os", "error">>
MkdirFailedMessage == <<"Failed", "to", "create", "directory:", "os", "error">>

---------------------------------------------------------------------------
(* daemon.rs: the daemon process *)

\* A spawned process.  state: "starting" (before the handshake), "serving"
\* (in the request loop), "dying" (streams closed, exit status not yet
\* observable by the parent), "exited".  stdin and out are the pipes: the
\* lines written and not yet read.  written, executed, last and prev are
\* observations: the number of lines written to stdout so far, the ids of
\* the requests dispatched, and what became of the last two parsed requests;
\* reaped is whether the parent has collected the exit status (a wait, or
\* a try_wait that returned it).
NoRequestSeen == [id |-> -1, signed |-> FALSE, outcome |-> "none"]

NewDaemon ==
    [state |-> "starting", code |-> None, secret |-> <<>>, last_id |-> 0,
     stdin |-> <<>>, stdin_open |-> TRUE, stdout_open |-> TRUE,
     out |-> <<>>, written |-> 0, executed |-> <<>>, last |-> NoRequestSeen, prev |-> NoRequestSeen,
     reaped |-> FALSE, stderr |-> <<>>]

Running(dm) == dm.state \in {"starting", "serving"}

\* The process ends with the given exit status: Some(code), or None when
\* a signal ended it.
Exit(dm, code) == [dm EXCEPT !.state = "dying", !.code = code]

\* What the operating system answers to a command: for Exec whether the
\* program was launched, its exit status (None when killed by a signal)
\* and its output; for the file operations whether the call succeeded.
OsResults(cmd) ==
    IF cmd.tag = "Exec"
    THEN { [ok |-> TRUE, code |-> Some(0), stdout |-> "out", stderr |-> ""],
           [ok |-> TRUE, code |-> Some(1), stdout |-> "", stderr |-> "err"],
           [ok |-> TRUE, code |-> Some(126), stdout |-> "", stderr |-> "err"],
           [ok |-> TRUE, code |-> None, stdout |-> "", stderr |-> ""],
           [ok |-> FALSE, code |-> None, stdout |-> "", stderr |-> ""] }
    ELSE { [ok |-> b, code |-> None, stdout |-> "", stderr |-> ""] : b \in BOOLEAN }

unwrap_or(opt, default) == IF opt = None THEN default ELSE opt[1]

handle_exec_SuccessWhenLaunched(id, os) ==
    IF os.ok
    THEN DaemonResponse(id, TRUE, unwrap_or(os.code, -1), os.stdout, os.stderr, None)
    ELSE error_response(id, ExecFailedMessage)

\* fn handle_exec
handle_exec(id, os) ==
    IF os.ok
    THEN LET exit_code == unwrap_or(os.code, -1)
         IN  DaemonResponse(id, exit_code = 0, exit_code, os.stdout, os.stderr, None)
    ELSE error_response(id, ExecFailedMessage)

\* fn handle_write_file
handle_write_file(id, os) ==
    IF os.ok THEN success_response(id) ELSE error_response(id, WriteFailedMessage)

\* fn handle_copy_file
handle_copy_file(id, os) ==
    IF os.ok THEN success_response(id) ELSE error_response(id, CopyFailedMessage)

\* fn handle_mkdir_p
handle_mkdir_p(id, os) ==
    IF os.ok THEN success_response(id) ELSE error_response(id, MkdirFailedMessage)

write_response_Unflushed(dm, response) ==
    IF dm.stdout_open
    THEN [dm EXCEPT !.written = @ + 1]
    ELSE Exit(dm, Some(1))

\* fn write_response, with the `?` of its caller: a write to a closed
\* stdout is an error that ends run_daemon, and main exits with status 1.
write_response(dm, response) ==
    IF dm.stdout_open
    THEN [dm EXCEPT !.out = Append(@, response), !.written = @ + 1]
    ELSE Exit(dm, Some(1))

IsReplay_SameIdPasses(request, last_id) == request.id < last_id

\* run_daemon, the anti-replay test: request.id <= last_id
IsReplay(request, last_id) == request.id <= last_id

IsAuthentic_SharedSecret(secret, request) ==
    verify_hmac(Secrets[1], request.id, to_json(request.cmd), request.hmac)

\* run_daemon, the signature test over the re-serialized command.
IsAuthentic(secret, request) ==
    verify_hmac(secret, request.id, to_json(request.cmd), request.hmac)

\* The observation of the branch the loop takes on a parsed request:
\* "replay", "unauthentic" or "dispatched", and whether the request's hmac
\* is the signature of its id and command under the daemon's secret.
Observe(dm, request, outcome) ==
    [dm EXCEPT !.prev = dm.last,
               !.last = [id |-> request.id,
                         signed |-> request.hmac = compute_hmac(dm.secret, request.id, to_json(request.cmd)),
                         outcome |-> outcome]]

Dispatch_ShutdownAnswers(dm, request, os) ==
    LET acc == [dm EXCEPT !.last_id = request.id,
                          !.executed = Append(@, request.id)]
    IN  CASE request.cmd.tag = "Shutdown" -> write_response(acc, success_response(request.id))
          [] request.cmd.tag = "Exec" -> write_response(acc, handle_exec(request.id, os))
          [] request.cmd.tag = "WriteFile" -> write_response(acc, handle_write_file(request.id, os))
          [] request.cmd.tag = "CopyFile" -> write_response(acc, handle_copy_file(request.id, os))
          [] OTHER -> write_response(acc, handle_mkdir_p(request.id, os))

Dispatch_ShutdownKeepsServing(dm, request, os) ==
    LET acc == [dm EXCEPT !.last_id = request.id,
                          !.executed = Append(@, request.id)]
    IN  CASE request.cmd.tag = "Shutdown" -> acc
          [] request.cmd.tag = "Exec" -> write_response(acc, handle_exec(request.id, os))
          [] request.cmd.tag = "WriteFile" -> write_response(acc, handle_write_file(request.id, os))
          [] request.cmd.tag = "CopyFile" -> write_response(acc, handle_copy_file(request.id, os))
          [] OTHER -> write_response(acc, handle_mkdir_p(request.id, os))

Dispatch_IdAfterCommand(dm, request, os) ==
    LET acc == [dm EXCEPT !.last_id = IF request.cmd.tag # "Shutdown" /\ os.ok
                                      THEN request.id ELSE @,
                          !.executed = Append(@, request.id)]
    IN  CASE request.cmd.tag = "Shutdown" -> Exit(acc, Some(0))
          [] request.cmd.tag = "Exec" -> write_response(acc, handle_exec(request.id, os))
          [] request.cmd.tag = "WriteFile" -> write_response(acc, handle_write_file(request.id, os))
          [] request.cmd.tag = "CopyFile" -> write_response(acc, handle_copy_file(request.id, os))
          [] OTHER -> write_response(acc, handle_mkdir_p(request.id, os))

\* run_daemon, the match on request.cmd, after last_id = request.id.
Dispatch(dm, request, os) ==
    LET acc == [dm EXCEPT !.last_id = request.id,
                          !.executed = Append(@, request.id)]
    IN  CASE request.cmd.tag = "Shutdown" -> Exit(acc, Some(0))
          [] request.cmd.tag = "Exec" -> write_response(acc, handle_exec(request.id, os))
          [] request.cmd.tag = "WriteFile" -> write_response(acc, handle_write_file(request.id, os))
          [] request.cmd.tag = "CopyFile" -> write_response(acc, handle_copy_file(request.id, os))
          [] OTHER -> write_response(acc, handle_mkdir_p(request.id, os))

ServeRequest_ShutdownUnchecked(dm, request, authentic) ==
    IF request.cmd.tag = "Shutdown"
    THEN { Dispatch(Observe(dm, request, "dispatched"), request, os) :
             os \in OsResults(request.cmd) }
    ELSE IF IsReplay(request, dm.last_id)
    THEN { write_response(Observe(dm, request, "replay"),
                          error_response(request.id, ReplayMessage)) }
    ELSE IF ~authentic
    THEN { write_response(Observe(dm, request, "unauthentic"),
                          error_response(request.id, HmacMessage)) }
    ELSE { Dispatch(Observe(dm, request, "dispatched"), request, os) :
             os \in OsResults(request.cmd) }

ServeRequest_IdBeforeVerify(dm, request, authentic) ==
    IF IsReplay(request, dm.last_id)
    THEN { write_response(Observe(dm, request, "replay"),
                          error_response(request.id, ReplayMessage)) }
    ELSE IF ~authentic
    THEN { write_response(Observe([dm EXCEPT !.last_id = request.id], request, "unauthentic"),
                          error_response(request.id, HmacMessage)) }
    ELSE { Dispatch(Observe(dm, request, "dispatched"), request, os) :
             os \in OsResults(request.cmd) }

ServeRequest_ReplayMovesId(dm, request, authentic) ==
    IF IsReplay(request, dm.last_id)
    THEN { write_response(Observe([dm EXCEPT !.last_id = request.id], request, "replay"),
                          error_response(request.id, ReplayMessage)) }
    ELSE IF ~authentic
    THEN { write_response(Observe(dm, request, "unauthentic"),
                          error_response(request.id, HmacMessage)) }
    ELSE { Dispatch(Observe(dm, request, "dispatched"), request, os) :
             os \in OsResults(request.cmd) }

ServeRequest_SignatureFirst(dm, request, authentic) ==
    IF ~authentic
    THEN { write_response(Observe(dm, request, "unauthentic"),
                          error_response(request.id, HmacMessage)) }
    ELSE IF IsReplay(request, dm.last_id)
    THEN { write_response(Observe(dm, request, "replay"),
                          error_response(request.id, ReplayMessage)) }
    ELSE { Dispatch(Observe(dm, request, "dispatched"), request, os) :
             os \in OsResults(request.cmd) }

\* run_daemon, the loop body on a parsed request, authentic being the
\* value of verify_hmac on it: the daemons it may leave, one for each answer
\* of the operating system when the command is dispatched.
ServeRequest(dm, request, authentic) ==
    IF IsReplay(request, dm.last_id)
    THEN { write_response(Observe(dm, request, "replay"),
                          error_response(request.id, ReplayMessage)) }
    ELSE IF ~authentic
    THEN { write_response(Observe(dm, request, "unauthentic"),
                          error_response(request.id, HmacMessage)) }
    ELSE { Dispatch(Observe(dm, request, "dispatched"), request, os) :
             os \in OsResults(request.cmd) }

Serve_ParseErrorAnswered(dm, line) ==
    IF line.kind = "not_utf8" THEN { Exit(dm, Some(1)) }
    ELSE IF line.kind = "blank" THEN {dm}
    ELSE IF request_from_line(line) = BadRequest
    THEN { write_response(dm, error_response(0, <<"Failed", "to", "parse", "request">>)) }
    ELSE ServeRequest(dm, request_from_line(line),
                      IsAuthentic(dm.secret, request_from_line(line)))

Serve_BlankLineGreets(dm, line) ==
    IF line.kind = "not_utf8" THEN { Exit(dm, Some(1)) }
    ELSE IF line.kind = "blank" THEN { write_response(dm, HandshakeLine(hex_encode(dm.secret))) }
    ELSE IF request_from_line(line) = BadRequest THEN {dm}
    ELSE ServeRequest(dm, request_from_line(line),
                      IsAuthentic(dm.secret, request_from_line(line)))

\* run_daemon, one iteration of the loop on the line read, dm being the
\* daemon with that line taken off its input.  `line?` on a line that is
\* not UTF-8 is an error that ends run_daemon, and main exits with status 1.
Serve(dm, line) ==
    IF line.kind = "not_utf8" THEN { Exit(dm, Some(1)) }
    ELSE IF line.kind = "blank" THEN {dm}
    ELSE IF request_from_line(line) = BadRequest THEN {dm}
    ELSE ServeRequest(dm, request_from_line(line),
                      IsAuthentic(dm.secret, request_from_line(line)))

\* run_daemon up to the loop: generate the secret, write the handshake.
DaemonHandshake(d) ==
    /\ daemons[d].state = "starting"
    /\ \E secret \in generate_secret :
         daemons' = [daemons EXCEPT ![d] =
            IF @.stdout_open
            THEN [@ EXCEPT !.state = "serving", !.secret = secret, !.written = @ + 1,
                           !.out = Append(@, HandshakeLine(hex_encode(secret)))]
            ELSE Exit([@ EXCEPT !.secret = secret], Some(1))]
    /\ UNCHANGED <<ctx, threads, borrow, lock, hist>>

\* run_daemon, one iteration of `for line in reader.lines()`.
DaemonServe(d) ==
    /\ daemons[d].state = "serving"
    /\ daemons[d].stdin # <<>>
    /\ \E next \in Serve([daemons[d] EXCEPT !.stdin = Tail(@)], Head(daemons[d].stdin)) :
          daemons' = [daemons EXCEPT ![d] = next]
    /\ UNCHANGED <<ctx, threads, borrow, lock, hist>>

DaemonEof_AnswersFirst(d) ==
    /\ daemons[d].state = "serving"
    /\ daemons[d].stdin = <<>>
    /\ ~daemons[d].stdin_open
    /\ daemons' = [daemons EXCEPT ![d] =
          Exit(write_response(@, error_response(0, <<"End", "of", "input">>)), Some(0))]
    /\ UNCHANGED <<ctx, threads, borrow, lock, hist>>

\* run_daemon, the end of `reader.lines()`: end of input, Ok(()).
DaemonEof(d) ==
    /\ daemons[d].state = "serving"
    /\ daemons[d].stdin = <<>>
    /\ ~daemons[d].stdin_open
    /\ daemons' = [daemons EXCEPT ![d] = Exit(@, Some(0))]
    /\ UNCHANGED <<ctx, threads, borrow, lock, hist>>

\* The exit status of a process that ended becomes observable (waitpid).
DaemonReap(d) ==
    /\ daemons[d].state = "dying"
    /\ daemons' = [daemons EXCEPT ![d].state = "exited"]
    /\ UNCHANGED <<ctx, threads, borrow, lock, hist>>

---------------------------------------------------------------------------
(* executor.rs: ExecutionContext, PrivilegedSession and their callers *)

Threads == {1, 2}

\* enum PrivilegeEscalation
PrivilegeEscalation == {"None", "Pkexec", "Sudo", "PkexecSession", "SudoSession"}

\* The arms `PkexecSession | SudoSession` of the matches on self.escalation.
IsSessionMode(escalation) == escalation \in {"PkexecSession", "SudoSession"}

\* ExecutionContext { escalation, session, spawner }: session is None or
\* Some(PrivilegedSession), spawner is whether one is set.  life is the
\* value's lifetime: "live", "dropping" (in Drop, waiting for the daemon),
\* "dropped".
ExecutionContext(escalation, session, spawner) ==
    [escalation |-> escalation, session |-> session, spawner |-> spawner, life |-> "live"]

\* PrivilegedSession { child, request_id, secret }: child is the index of
\* the daemon process whose pipes the session owns.
PrivilegedSession(child, secret) == [child |-> child, request_id |-> 1, secret |-> secret]

\* A caller's position: "idle", or inside a verb of the context at
\* "ensure" (ensure_session), "new_try_wait" and "new_read"
\* (PrivilegedSession::new), "lock" (session.lock()), "send" and "recv"
\* (send_request); a caller that built a session by hand is at "own"
\* (holding it), "own_wait" (in shutdown's wait), "own_closed" (shutdown
\* returned), "own_drop_wait" (in the drop's wait) or "done" (session
\* dropped).  child is the process being handed to new, id the id of
\* the request sent, held the session the caller keeps to itself, if any.
IdleThread == [pc |-> "idle", verb |-> "", child |-> 0, id |-> 0, held |-> None]

Verbs == {"run", "run_checked", "write_file", "copy_file", "mkdir"}

\* The command each verb asks for.
CommandOf(verb) ==
    CASE verb \in {"run", "run_checked"} -> Exec("mount", <<"-a">>)
      [] verb = "write_file" -> WriteFile("/etc/fstab", "UUID=1 /mnt ntfs")
      [] verb = "copy_file" -> CopyFile("/etc/fstab", "/etc/fstab.bak")
      [] OTHER -> MkdirP("/mnt/disk")

NoResponse == DaemonResponse(0, FALSE, 0, "", "", None)

\* std::process::Output of a command run on the local OS: what it wrote to
\* its stdout and stderr (its status is the status of the Ok that holds it).
Output(stdout, stderr) == DaemonResponse(0, FALSE, 0, stdout, stderr, None)

\* Result<T>: Ok (with the raw wait status of the Output for run, and the
\* Response it was made from in session mode) or Err(error), error being
\* the variant of Error and message its text, as words.
Ok(verb, status, response) ==
    [verb |-> verb, ok |-> TRUE, error |-> "", message |-> <<>>, status |-> status,
     response |-> response]
Err(verb, error, message) ==
    [verb |-> verb, ok |-> FALSE, error |-> error, message |-> message, status |-> 0,
     response |-> NoResponse]
NoResult == Err("", "", <<>>)

\* The error texts of executor.rs, as their words.
NoSessionMessage ==
    <<"Privileged", "session", "not", "available.", "Either", "set", "a", "session",
      "using", "set_session()", "or", "provide", "a", "spawner", "using", "set_spawner().">>
SpawnFailedMessage == <<"Failed", "to", "spawn", "daemon:", "os", "error">>
EarlyExitMessage == <<"Daemon", "process", "exited", "early", "with", "code">>
NoStderrMessage == <<"No", "error", "message", "available">>
EmptyHandshakeMessage == <<"Daemon", "sent", "empty", "handshake">>
ParseHandshakeMessage == <<"Failed", "to", "parse", "daemon", "handshake:">>
DecodeSecretMessage == <<"Failed", "to", "decode", "secret:">>
WriteRequestMessage == <<"Failed", "to", "write", "to", "daemon:", "os", "error">>
ParseResponseMessage == <<"Failed", "to", "parse", "response:">>
SecurityMessage == <<"Security", "verification", "failed:">>
UnknownErrorMessage == <<"Unknown", "error">>
ShutdownWriteMessage == <<"Failed", "to", "send", "shutdown", "to", "daemon:", "os", "error">>

\* What the program has done so far: fed lines, verbs called, calls of
\* spawner.spawn(), operations run against the local OS without a session
\* (directly or under a one-shot wrapper), the ids of the requests the
\* sessions wrote, the lines the sessions read after the handshake, the
\* calls of PrivilegedSession::shutdown, the last verb's result and the
\* caller it was returned to, whether a read of a response has met the
\* end of the daemon's output or a line that is no response, and the last
\* line handed to a daemon that is served alone.
NoHistory ==
    [fed |-> 0, ops |-> 0, spawn_calls |-> 0, local |-> 0, sent |-> <<>>, read |-> 0, shutdowns |-> 0,
     result |-> NoResult, by |-> 0, broken |-> FALSE, line |-> BlankLine]

\* ExitStatus::from_raw(raw).code(): the exit code of a raw wait status,
\* None unless its low seven bits say the process exited.
status_code(raw) == IF raw % 128 = 0 THEN Some((raw \div 256) % 256) ELSE None

\* ExitStatus::success()
status_success(raw) == raw = 0

\* The raw wait status of a process run on the local OS: exit code in the
\* second byte, or the number of the signal that ended it.
raw_status(code) == IF code = None THEN 9 ELSE code[1] * 256

\* StdDaemonChild::try_wait: None while the process cannot be reaped yet.
try_wait_NeverExited(dm) == None

try_wait(dm) == IF dm.state = "exited" THEN Some(unwrap_or(dm.code, -1)) ELSE None

\* The process after a wait returned its exit status.
waited(dm) == [dm EXCEPT !.reaped = TRUE]

\* Dropping a Box<dyn DaemonChild>: its pipe ends are closed, the process
\* is neither killed nor reaped.
drop_child(dm) == [dm EXCEPT !.stdin_open = FALSE, !.stdout_open = FALSE, !.out = <<>>]

\* A process that ended and whose handle was dropped: nothing can observe
\* its exit status any more.
lose_child(dm) == [drop_child(dm) EXCEPT !.state = "lost", !.code = None, !.stderr = <<>>]

\* String::contains on an error text.
contains(message, word) == \E i \in 1..Len(message) : message[i] = word

\* run_privileged_checked, after run_privileged returned Ok(output): the
\* CommandExit error carries the code and the stderr, as its two words.
check_output(verb, result) ==
    IF ~result.ok THEN [result EXCEPT !.verb = verb]
    ELSE IF status_success(result.status) THEN Ok(verb, 0, result.response)
    ELSE IF status_code(result.status) = Some(126) THEN Err(verb, "AuthenticationCancelled", <<>>)
    ELSE Err(verb, "CommandExit",
             <<ToString(unwrap_or(status_code(result.status), -1)), result.response.stderr>>)

\* The verb returns: the caller gives up the context (and the session's
\* lock, if it holds it) with its result.
Return(t, result, h) ==
    /\ threads' = [threads EXCEPT ![t] = IdleThread]
    /\ borrow' = 0
    /\ lock' = IF lock = t THEN 0 ELSE lock
    /\ hist' = [h EXCEPT !.result = result, !.by = t]

\* `&mut self`: a verb can be entered only while no other call holds the
\* context and the context is alive.
CanCall(t) ==
    /\ threads[t].pc = "idle"
    /\ borrow = 0
    /\ ctx.life = "live"
    /\ hist.ops < MaxOps

\* fn run_command: the program runs on the local OS.
run_command(os) ==
    IF os.ok THEN Ok("run", raw_status(os.code), Output(os.stdout, os.stderr))
    ELSE Err("run", "CommandExecution", <<>>)

\* fn run_with_wrapper: found is whether `wrapper --version` could be run.
run_with_wrapper(found, os) ==
    IF ~found THEN Err("run", "EscalationToolNotFound", <<>>) ELSE run_command(os)

\* run_privileged, the arms None, Pkexec and Sudo.
run_privileged_local(escalation, found, os) ==
    IF escalation = "None" THEN run_command(os) ELSE run_with_wrapper(found, os)

\* write_file_privileged, the arms None (fs::write) and Pkexec | Sudo
\* (`wrapper tee path`).
write_file_local(escalation, os) ==
    IF escalation = "None"
    THEN IF os.ok THEN Ok("write_file", 0, NoResponse) ELSE Err("write_file", "FstabWrite", <<>>)
    ELSE IF ~os.ok THEN Err("write_file", "CommandExecution", <<>>)
    ELSE IF status_success(raw_status(os.code)) THEN Ok("write_file", 0, NoResponse)
    ELSE IF status_code(raw_status(os.code)) = Some(126)
         THEN Err("write_file", "AuthenticationCancelled", <<>>)
    ELSE Err("write_file", "FstabWrite", <<>>)

\* The verbs on a context whose strategy is not a session strategy.
local_result(escalation, verb, found, os) ==
    CASE verb = "run" -> run_privileged_local(escalation, found, os)
      [] verb = "write_file" -> write_file_local(escalation, os)
      [] OTHER -> check_output(verb, run_privileged_local(escalation, found, os))

CallLocal_UsesSession(t) ==
    /\ CanCall(t)
    /\ ~IsSessionMode(ctx.escalation)
    /\ IF ctx.session # None
       THEN /\ \E verb \in Verbs :
                 threads' = [threads EXCEPT ![t] = [IdleThread EXCEPT !.pc = "lock", !.verb = verb]]
            /\ borrow' = t
            /\ hist' = [hist EXCEPT !.ops = @ + 1, !.result = NoResult]
            /\ UNCHANGED <<daemons, ctx, lock>>
       ELSE /\ \E verb \in Verbs, found \in BOOLEAN :
                 \E os \in (IF verb = "write_file" /\ ctx.escalation = "None"
                            THEN OsResults(CommandOf(verb))
                            ELSE OsResults(Exec("mount", <<"-a">>))) :
                    hist' = [hist EXCEPT !.ops = @ + 1, !.local = @ + 1,
                                         !.result = local_result(ctx.escalation, verb, found, os),
                                         !.by = t]
            /\ UNCHANGED <<daemons, ctx, threads, borrow, lock>>

\* A verb called on a context whose strategy is None, Pkexec or Sudo: the
\* operation runs on the local OS, directly or under the one-shot wrapper.
CallLocal(t) ==
    /\ CanCall(t)
    /\ ~IsSessionMode(ctx.escalation)
    /\ \E verb \in Verbs, found \in BOOLEAN :
         \E os \in (IF verb = "write_file" /\ ctx.escalation = "None"
                    THEN OsResults(CommandOf(verb))
                    ELSE OsResults(Exec("mount", <<"-a">>))) :
            hist' = [hist EXCEPT !.ops = @ + 1, !.local = @ + 1,
                                 !.result = local_result(ctx.escalation, verb, found, os),
                                 !.by = t]
    /\ UNCHANGED <<daemons, ctx, threads, borrow, lock>>

\* A verb called on a context whose strategy is a session strategy: the
\* arm `PkexecSession | SudoSession`, up to the call of ensure_session.
CallSession(t) ==
    /\ CanCall(t)
    /\ IsSessionMode(ctx.escalation)
    /\ \E verb \in Verbs :
         threads' = [threads EXCEPT ![t] = [IdleThread EXCEPT !.pc = "ensure", !.verb = verb]]
    /\ borrow' = t
    /\ hist' = [hist EXCEPT !.ops = @ + 1, !.result = NoResult]
    /\ UNCHANGED <<daemons, ctx, lock>>

\* What spawner.spawn() may answer: a child process, or one of its errors.
SpawnResults == {"Ok", "SidecarNotFound", "EscalationToolNotFound", "SessionCreation"}

EnsureSession_FallsThrough(t) ==
    /\ threads[t].pc = "ensure"
    /\ IF ctx.session # None
       THEN /\ threads' = [threads EXCEPT ![t].pc = "lock"]
            /\ UNCHANGED <<daemons, ctx, borrow, lock, hist>>
       ELSE IF ~ctx.spawner
       THEN /\ Return(t, Err(threads[t].verb, "SessionCommunication",
                             <<"Session", "not", "available">>), hist)
            /\ UNCHANGED <<daemons, ctx>>
       ELSE \E spawned \in SpawnResults :
              IF spawned = "Ok"
              THEN /\ daemons' = Append(daemons, NewDaemon)
                   /\ threads' = [threads EXCEPT ![t].pc = "new_try_wait",
                                                 ![t].child = Len(daemons) + 1]
                   /\ hist' = [hist EXCEPT !.spawn_calls = @ + 1]
                   /\ UNCHANGED <<ctx, borrow, lock>>
              ELSE /\ Return(t, Err(threads[t].verb, spawned, SpawnFailedMessage),
                             [hist EXCEPT !.spawn_calls = @ + 1])
                   /\ UNCHANGED <<daemons, ctx>>

\* fn ensure_session, called from a verb's session arm.  With a session
\* present the verb goes on to lock it; with none and a spawner set,
\* spawner.spawn() is called and its child handed to PrivilegedSession::new;
\* with neither the verb returns the SessionCreation error.
EnsureSession(t) ==
    /\ threads[t].pc = "ensure"
    /\ IF ctx.session # None
       THEN /\ threads' = [threads EXCEPT ![t].pc = "lock"]
            /\ UNCHANGED <<daemons, ctx, borrow, lock, hist>>
       ELSE IF ~ctx.spawner
       THEN /\ Return(t, Err(threads[t].verb, "SessionCreation", NoSessionMessage), hist)
            /\ UNCHANGED <<daemons, ctx>>
       ELSE \E spawned \in SpawnResults :
              IF spawned = "Ok"
              THEN /\ daemons' = Append(daemons, NewDaemon)
                   /\ threads' = [threads EXCEPT ![t].pc = "new_try_wait",
                                                 ![t].child = Len(daemons) + 1]
                   /\ hist' = [hist EXCEPT !.spawn_calls = @ + 1]
                   /\ UNCHANGED <<ctx, borrow, lock>>
              ELSE /\ Return(t, Err(threads[t].verb, spawned, SpawnFailedMessage),
                             [hist EXCEPT !.spawn_calls = @ + 1])
                   /\ UNCHANGED <<daemons, ctx>>

\* PrivilegedSession::new fails: the child is dropped and the error is what
\* ensure_session, and the verb, return.
NewFails(t, error, message) ==
    /\ daemons' = [daemons EXCEPT ![threads[t].child] = lose_child(@)]
    /\ Return(t, Err(threads[t].verb, error, message), hist)
    /\ UNCHANGED ctx

\* PrivilegedSession::new, the check whether the child has already exited.
NewTryWait(t) ==
    /\ threads[t].pc = "new_try_wait"
    /\ LET exited == try_wait(daemons[threads[t].child])
       IN  IF exited = None
           THEN /\ threads' = [threads EXCEPT ![t].pc = "new_read"]
                /\ UNCHANGED <<daemons, ctx, borrow, lock, hist>>
           ELSE IF exited = Some(126)
           THEN NewFails(t, "AuthenticationCancelled", <<>>)
           ELSE NewFails(t, "SessionCreation",
                         EarlyExitMessage \o <<ToString(exited[1])>>
                            \o (IF daemons[threads[t].child].stderr = <<>>
                                THEN NoStderrMessage
                                ELSE daemons[threads[t].child].stderr))

\* A read_line on the daemon's output returns: a line is there, or the
\* daemon's end of the pipe is closed.
CanRead(dm) == dm.out # <<>> \/ ~Running(dm)

\* PrivilegedSession::new, from reading the handshake line to Ok(Self):
\* ensure_session stores the session in the context, a caller that built
\* it by hand holds it.
NewReadHandshake(t) ==
    /\ threads[t].pc = "new_read"
    /\ LET d == threads[t].child
           dm == daemons[d]
       IN  /\ CanRead(dm)
           /\ IF dm.out = <<>>
              THEN IF try_wait(dm) = Some(126)
                   THEN NewFails(t, "AuthenticationCancelled", <<>>)
                   ELSE NewFails(t, "SessionCreation", EmptyHandshakeMessage)
              ELSE IF Head(dm.out).type # "handshake"
              THEN NewFails(t, "SessionCreation", ParseHandshakeMessage)
              ELSE IF hex_decode(Head(dm.out).secret) = HexError
              THEN NewFails(t, "SessionCreation", DecodeSecretMessage)
              ELSE /\ daemons' = [daemons EXCEPT ![d].out = Tail(@)]
                   /\ IF threads[t].verb = "set_session"
                      THEN /\ threads' = [threads EXCEPT
                                ![t].pc = "own",
                                ![t].held = Some(PrivilegedSession(d, hex_decode(Head(dm.out).secret)))]
                           /\ UNCHANGED <<ctx, borrow, lock, hist>>
                      ELSE /\ ctx' = [ctx EXCEPT !.session =
                                Some(PrivilegedSession(d, hex_decode(Head(dm.out).secret)))]
                           /\ threads' = [threads EXCEPT ![t].pc = "lock"]
                           /\ UNCHANGED <<borrow, lock, hist>>

LockSession_NoMutex(t) ==
    /\ threads[t].pc = "lock"
    /\ threads' = [threads EXCEPT ![t].pc = "send"]
    /\ UNCHANGED <<daemons, ctx, borrow, lock, hist>>

\* session.lock(): the Mutex around the session is taken when free.
LockSession(t) ==
    /\ threads[t].pc = "lock"
    /\ lock = 0
    /\ lock' = t
    /\ threads' = [threads EXCEPT ![t].pc = "send"]
    /\ UNCHANGED <<daemons, ctx, borrow, hist>>

next_id_Reused(session) == [value |-> session.request_id, session |-> session]

\* fn next_id: fetch_add(1) returns the counter's value and increments it.
next_id(session) ==
    [value |-> session.request_id,
     session |-> [session EXCEPT !.request_id = @ + 1]]

\* fn create_signed_request
create_signed_request(session, id, cmd) ==
    DaemonRequest(id, compute_hmac(session.secret, id, to_json(cmd)), cmd)

\* A write to the daemon's input succeeds while the daemon holds the other
\* end of the pipe.
CanWrite(dm) == Running(dm)

\* A session operation (run_command, write_file, copy_file, mkdir_p) up to
\* the write in send_request: take the next id, sign the command, write the
\* request line.  A failed write is the operation's error.
SendRequest(t) ==
    /\ threads[t].pc = "send"
    /\ LET session == ctx.session[1]
           d == session.child
           taken == next_id(session)
           request == create_signed_request(session, taken.value, CommandOf(threads[t].verb))
       IN  /\ ctx' = [ctx EXCEPT !.session = Some(taken.session)]
           /\ IF CanWrite(daemons[d])
              THEN /\ daemons' = [daemons EXCEPT ![d].stdin = Append(@, request_to_line(request))]
                   /\ threads' = [threads EXCEPT ![t].pc = "recv", ![t].id = taken.value]
                   /\ hist' = [hist EXCEPT !.sent = Append(@, taken.value)]
                   /\ UNCHANGED <<borrow, lock>>
              ELSE /\ Return(t, Err(threads[t].verb, "SessionCommunication", WriteRequestMessage),
                             hist)
                   /\ UNCHANGED daemons

\* send_request, the test on the response read.
IsSecurityFailure_Never(response) == FALSE

IsSecurityFailure(response) ==
    /\ ~response.success
    /\ response.error # None
    /\ contains(response.error[1], "authentication") \/ contains(response.error[1], "HMAC")

session_result_IgnoresSuccess(verb, response) ==
    CASE verb = "run" -> Ok(verb, response.exit_code, response)
      [] verb = "run_checked" -> check_output(verb, Ok("run", response.exit_code, response))
      [] OTHER -> Ok(verb, 0, response)

\* run_command, write_file, copy_file and mkdir_p after send_request
\* returned Ok(response), and run_privileged_checked on a run's output.
session_result(verb, response) ==
    CASE verb = "run" -> Ok(verb, response.exit_code, response)
      [] verb = "run_checked" -> check_output(verb, Ok("run", response.exit_code, response))
      [] OTHER ->
           IF ~response.success
           THEN Err(verb, "SessionCommunication", unwrap_or(response.error, UnknownErrorMessage))
           ELSE Ok(verb, 0, response)

\* send_request from the read of the response line, and the rest of the
\* operation and of the verb.
ReceiveResponse(t) ==
    /\ threads[t].pc = "recv"
    /\ LET d == ctx.session[1].child
           dm == daemons[d]
           verb == threads[t].verb
       IN  /\ CanRead(dm)
           /\ IF dm.out = <<>>
              THEN /\ Return(t, Err(verb, "SessionCommunication", ParseResponseMessage),
                             [hist EXCEPT !.broken = TRUE])
                   /\ UNCHANGED daemons
              ELSE /\ daemons' = [daemons EXCEPT ![d].out = Tail(@)]
                   /\ Return(t,
                             IF Head(dm.out).type # "response"
                             THEN Err(verb, "SessionCommunication", ParseResponseMessage)
                             ELSE IF IsSecurityFailure(Head(dm.out))
                             THEN Err(verb, "SessionCommunication",
                                      SecurityMessage \o Head(dm.out).error[1])
                             ELSE session_result(verb, Head(dm.out)),
                             [hist EXCEPT !.read = @ + 1,
                                          !.broken = @ \/ Head(dm.out).type # "response"])
           /\ UNCHANGED ctx

\* A caller starts a daemon itself, to build a session from it with
\* PrivilegedSession::new.  (Only callers of contexts that hold no session
\* yet do, and only one of them.)
SetSession(t) ==
    /\ CanCall(t)
    /\ ctx.session = None
    /\ \A u \in Threads : threads[u].held = None
    /\ daemons' = Append(daemons, NewDaemon)
    /\ threads' = [threads EXCEPT ![t] = [IdleThread EXCEPT !.pc = "new_try_wait",
                                                            !.verb = "set_session",
                                                            !.child = Len(daemons) + 1]]
    /\ borrow' = t
    /\ hist' = [hist EXCEPT !.ops = @ + 1, !.result = NoResult]
    /\ UNCHANGED <<ctx, lock>>

\* fn set_session: the caller hands the session it built to the context.
OwnStore(t) ==
    /\ threads[t].pc = "own"
    /\ ctx' = [ctx EXCEPT !.session = threads[t].held]
    /\ Return(t, Ok("set_session", 0, NoResponse), hist)
    /\ UNCHANGED daemons

\* fn shutdown, called by the owner of a session: take the next id, write
\* the signed Shutdown request (a failed write is the Err returned), then
\* wait for the daemon to exit.
OwnShutdown(t) ==
    /\ threads[t].pc = "own"
    /\ LET session == threads[t].held[1]
           d == session.child
           taken == next_id(session)
           request == create_signed_request(session, taken.value, Shutdown)
       IN  IF CanWrite(daemons[d])
           THEN /\ daemons' = [daemons EXCEPT ![d].stdin = Append(@, request_to_line(request))]
                /\ threads' = [threads EXCEPT ![t].pc = "own_wait", ![t].held = Some(taken.session)]
                /\ hist' = [hist EXCEPT !.sent = Append(@, taken.value), !.shutdowns = @ + 1]
           ELSE /\ threads' = [threads EXCEPT ![t].pc = "own_closed", ![t].held = Some(taken.session)]
                /\ hist' = [hist EXCEPT !.shutdowns = @ + 1,
                                        !.result = Err("shutdown", "SessionCommunication",
                                                       ShutdownWriteMessage),
                                        !.by = t]
                /\ UNCHANGED daemons
    /\ UNCHANGED <<ctx, borrow, lock>>

\* shutdown, `let _ = self.child.wait()` returning, and Ok(()).
OwnShutdownWait(t) ==
    /\ threads[t].pc = "own_wait"
    /\ daemons[threads[t].held[1].child].state = "exited"
    /\ daemons' = [daemons EXCEPT ![threads[t].held[1].child] = waited(@)]
    /\ threads' = [threads EXCEPT ![t].pc = "own_closed"]
    /\ hist' = [hist EXCEPT !.result = Ok("shutdown", 0, NoResponse), !.by = t]
    /\ UNCHANGED <<ctx, borrow, lock>>

\* The owner drops its session, whether or not it called shutdown: Drop
\* for PrivilegedSession calls shutdown and discards its result.
OwnDrop(t) ==
    /\ threads[t].pc \in {"own", "own_closed"}
    /\ LET session == threads[t].held[1]
           d == session.child
           taken == next_id(session)
           request == create_signed_request(session, taken.value, Shutdown)
       IN  IF CanWrite(daemons[d])
           THEN /\ daemons' = [daemons EXCEPT ![d].stdin = Append(@, request_to_line(request))]
                /\ threads' = [threads EXCEPT ![t].pc = "own_drop_wait",
                                              ![t].held = Some(taken.session)]
                /\ hist' = [hist EXCEPT !.sent = Append(@, taken.value), !.shutdowns = @ + 1]
                /\ UNCHANGED borrow
           ELSE /\ daemons' = [daemons EXCEPT ![d] = drop_child(@)]
                /\ threads' = [threads EXCEPT ![t].pc = "done", ![t].held = Some(taken.session)]
                /\ hist' = [hist EXCEPT !.shutdowns = @ + 1]
                /\ borrow' = 0
    /\ UNCHANGED <<ctx, lock>>

\* The wait of the drop's shutdown returns, and the child's pipes are closed.
OwnDropWait(t) ==
    /\ threads[t].pc = "own_drop_wait"
    /\ daemons[threads[t].held[1].child].state = "exited"
    /\ daemons' = [daemons EXCEPT ![threads[t].held[1].child] = drop_child(waited(@))]
    /\ threads' = [threads EXCEPT ![t].pc = "done"]
    /\ borrow' = 0
    /\ UNCHANGED <<ctx, lock, hist>>

SetSpawner_SpawnsAtOnce ==
    /\ borrow = 0
    /\ ctx.life = "live"
    /\ ~ctx.spawner
    /\ ctx' = [ctx EXCEPT !.spawner = TRUE]
    /\ daemons' = Append(daemons, NewDaemon)
    /\ hist' = [hist EXCEPT !.spawn_calls = @ + 1]
    /\ UNCHANGED <<threads, borrow, lock>>

\* fn set_spawner
SetSpawner ==
    /\ borrow = 0
    /\ ctx.life = "live"
    /\ ~ctx.spawner
    /\ ctx' = [ctx EXCEPT !.spawner = TRUE]
    /\ UNCHANGED <<daemons, threads, borrow, lock, hist>>

\* The context goes out of scope.  Its session, if any, is dropped: Drop
\* for PrivilegedSession calls shutdown, which takes the next id, writes
\* the signed Shutdown request and, if the write succeeded, waits for the
\* daemon to exit; the result is discarded.
DropContext ==
    /\ borrow = 0
    /\ ctx.life = "live"
    /\ IF ctx.session = None
       THEN /\ ctx' = [ctx EXCEPT !.life = "dropped"]
            /\ UNCHANGED <<daemons, hist>>
       ELSE LET session == ctx.session[1]
                d == session.child
                taken == next_id(session)
                request == create_signed_request(session, taken.value, Shutdown)
            IN  IF CanWrite(daemons[d])
                THEN /\ daemons' = [daemons EXCEPT ![d].stdin = Append(@, request_to_line(request))]
                     /\ ctx' = [ctx EXCEPT !.session = Some(taken.session), !.life = "dropping"]
                     /\ hist' = [hist EXCEPT !.sent = Append(@, taken.value), !.shutdowns = @ + 1]
                ELSE /\ daemons' = [daemons EXCEPT ![d] = drop_child(@)]
                     /\ ctx' = [ctx EXCEPT !.session = Some(taken.session), !.life = "dropped"]
                     /\ hist' = [hist EXCEPT !.shutdowns = @ + 1]
    /\ UNCHANGED <<threads, borrow, lock>>

\* shutdown, `let _ = self.child.wait()` returning, and the rest of the
\* drop: the child's pipes are closed.
DropWait ==
    /\ ctx.life = "dropping"
    /\ daemons[ctx.session[1].child].state = "exited"
    /\ daemons' = [daemons EXCEPT ![ctx.session[1].child] = drop_child(waited(@))]
    /\ ctx' = [ctx EXCEPT !.life = "dropped"]
    /\ UNCHANGED <<threads, borrow, lock, hist>>

\* The escalation tool ends before the daemon runs: the authorization
\* prompt was dismissed (126) or authorization was refused (127), with a
\* diagnostic on its stderr or none.
DaemonAbort(d) ==
    /\ daemons[d].state = "starting"
    /\ \E code \in {126, 127}, text \in {<<>>, <<"Not", "authorized">>} :
         daemons' = [daemons EXCEPT ![d] = [Exit(@, Some(code)) EXCEPT !.stderr = text]]
    /\ UNCHANGED <<ctx, threads, borrow, lock, hist>>

\* A signal ends the daemon.
DaemonKilled(d) ==
    /\ daemons[d].state = "serving"
    /\ daemons' = [daemons EXCEPT ![d] = Exit(@, None)]
    /\ UNCHANGED <<ctx, threads, borrow, lock, hist>>

---------------------------------------------------------------------------
(* Contexts and their callers *)

\* A context as its constructors leave it: any strategy, no session, a
\* spawner or none (with_spawner).
Init ==
    /\ daemons = <<>>
    /\ \E escalation \in PrivilegeEscalation, spawner \in BOOLEAN :
         ctx = ExecutionContext(escalation, None, spawner)
    /\ threads = [t \in Threads |-> IdleThread]
    /\ borrow = 0
    /\ lock = 0
    /\ hist = NoHistory

Next ==
    \/ \E t \in Threads :
         \/ CallLocal(t)
         \/ CallSession(t)
         \/ SetSession(t)
         \/ OwnStore(t)
         \/ EnsureSession(t)
         \/ NewTryWait(t)
         \/ NewReadHandshake(t)
         \/ LockSession(t)
         \/ SendRequest(t)
         \/ ReceiveResponse(t)
    \/ SetSpawner
    \/ DropContext
    \/ DropWait
    \/ \E d \in 1..Len(daemons) :
         \/ DaemonHandshake(d)
         \/ DaemonServe(d)
         \/ DaemonReap(d)
         \/ DaemonAbort(d)
         \/ DaemonKilled(d)

Spec == Init /\ [][Next]_vars

---------------------------------------------------------------------------
(* A session in the hands of its owner *)

\* A session-mode context without a spawner, whose caller builds a session
\* by hand and shuts it down, drops it or hands it to the context.
InitOwned ==
    /\ daemons = <<>>
    /\ \E escalation \in {e \in PrivilegeEscalation : IsSessionMode(e)} :
         ctx = ExecutionContext(escalation, None, FALSE)
    /\ threads = [t \in Threads |-> IdleThread]
    /\ borrow = 0
    /\ lock = 0
    /\ hist = NoHistory

DaemonSteps ==
    \E d \in 1..Len(daemons) :
        \/ DaemonHandshake(d)
        \/ DaemonServe(d)
        \/ DaemonReap(d)

WaitSteps ==
    \/ DropWait
    \/ \E t \in Threads : OwnShutdownWait(t) \/ OwnDropWait(t)

NextOwned ==
    \/ \E t \in Threads :
         \/ CallSession(t)
         \/ SetSession(t)
         \/ OwnStore(t)
         \/ OwnShutdown(t)
         \/ OwnDrop(t)
         \/ EnsureSession(t)
         \/ NewTryWait(t)
         \/ NewReadHandshake(t)
         \/ LockSession(t)
         \/ SendRequest(t)
         \/ ReceiveResponse(t)
    \/ DropContext
    \/ DaemonSteps
    \/ WaitSteps
    \/ \E d \in 1..Len(daemons) : DaemonAbort(d) \/ DaemonKilled(d)

SpecOwned == InitOwned /\ [][NextOwned]_vars

\* The operating system runs a process that can run, and a wait returns
\* once the process has exited.
SpecOwnedFair == SpecOwned /\ WF_vars(DaemonSteps) /\ WF_vars(WaitSteps)

---------------------------------------------------------------------------
(* A session whose pipe to the daemon is interfered with *)

\* What a party between the client and the daemon makes of a request line
\* it cannot sign: the line with its signature cut short, the line carrying
\* another command under the same signature, or the line written twice.
TamperedLines(line) ==
    { << [line EXCEPT !.hmac = SubSeq(@, 1, 8)] >>,
      << [line EXCEPT !.members = to_json(MkdirP("/mnt/disk"))] >>,
      << line, line >> } \ { <<line>> }

\* The request line waiting in a daemon's stdin is interfered with before
\* the daemon reads it.
TamperRequest(d) ==
    /\ daemons[d].state = "serving"
    /\ Len(daemons[d].stdin) = 1
    /\ hist.fed < MaxTampers
    /\ \E lines \in TamperedLines(Head(daemons[d].stdin)) :
         daemons' = [daemons EXCEPT ![d].stdin = lines]
    /\ hist' = [hist EXCEPT !.fed = @ + 1]
    /\ UNCHANGED <<ctx, threads, borrow, lock>>

\* The response line waiting in a daemon's output is interfered with before
\* the client reads it: what the client reads is no JSON.
TamperResponse(d) ==
    /\ daemons[d].out # <<>>
    /\ Head(daemons[d].out).type = "response"
    /\ hist.fed < MaxTampers
    /\ daemons' = [daemons EXCEPT ![d].out = <<BadResponse>> \o Tail(@)]
    /\ hist' = [hist EXCEPT !.fed = @ + 1]
    /\ UNCHANGED <<ctx, threads, borrow, lock>>

\* A context in a session strategy with a spawner.
InitTampered ==
    /\ daemons = <<>>
    /\ \E escalation \in {e \in PrivilegeEscalation : IsSessionMode(e)} :
         ctx = ExecutionContext(escalation, None, TRUE)
    /\ threads = [t \in Threads |-> IdleThread]
    /\ borrow = 0
    /\ lock = 0
    /\ hist = NoHistory

NextTampered ==
    \/ \E t \in Threads :
         \/ CallSession(t)
         \/ EnsureSession(t)
         \/ NewTryWait(t)
         \/ NewReadHandshake(t)
         \/ LockSession(t)
         \/ SendRequest(t)
         \/ ReceiveResponse(t)
    \/ DropContext
    \/ DropWait
    \/ DaemonSteps
    \/ \E d \in 1..Len(daemons) : TamperRequest(d)
    \/ \E d \in 1..Len(daemons) : TamperResponse(d)

SpecTampered == InitTampered /\ [][NextTampered]_vars

---------------------------------------------------------------------------
(* Two sessions' daemons side by side *)

\* The lines that may reach either daemon: the request lines two sessions
\* write, a command or a Shutdown with every id up to MaxId, signed under
\* either secret; and lines that are no requests: blank, not JSON, not
\* UTF-8, an unknown command.
PairLines ==
    { RequestLine(id, compute_hmac(secret, id, to_json(cmd)), to_json(cmd)) :
        id \in 1..MaxId, secret \in generate_secret, cmd \in {MkdirP("/mnt/disk"), Shutdown} }
    \cup { BlankLine, GarbageLine, NotUtf8Line,
           RequestLine(1, <<>>, << <<"cmd", "s", "reboot">> >>) }

\* A request line arrives in the stdin of a daemon that has read the lines
\* before it.
Feed(d) ==
    /\ daemons[d].state = "serving"
    /\ daemons[d].stdin = <<>>
    /\ hist.fed < MaxPairLines
    /\ \E line \in PairLines :
         daemons' = [daemons EXCEPT ![d] = [@ EXCEPT !.stdin = <<line>>, !.out = <<>>]]
    /\ hist' = [hist EXCEPT !.fed = @ + 1]
    /\ UNCHANGED <<ctx, threads, borrow, lock>>

\* Two daemons, each spawned for its own session.
InitPair ==
    /\ daemons = <<NewDaemon, NewDaemon>>
    /\ ctx = ExecutionContext("None", None, FALSE)
    /\ threads = [t \in Threads |-> IdleThread]
    /\ borrow = 0
    /\ lock = 0
    /\ hist = NoHistory

NextPair ==
    \/ \E d \in 1..Len(daemons) : Feed(d)
    \/ DaemonSteps

SpecPair == InitPair /\ [][NextPair]_vars

---------------------------------------------------------------------------
(* The daemon alone, fed arbitrary input lines by whoever holds its stdin *)

\* The commands the fed lines carry: one of each kind.
FedCommands ==
    { Exec("mount", <<"-a">>),
      WriteFile("/etc/fstab", "UUID=1 /mnt ntfs"),
      CopyFile("/etc/fstab", "/etc/fstab.bak"),
      MkdirP("/mnt/disk"),
      Shutdown }

Reverse(seq) == [i \in 1..Len(seq) |-> seq[Len(seq) + 1 - i]]

\* The lines read: blank, not JSON, not UTF-8, an unknown command, every command with
\* every id up to MaxId signed under the first secret, one command signed
\* under the second, a request carrying the signature of the next id, of
\* another command, a signature cut short, and a request whose members are
\* not in serialization order.
FedLines ==
    { BlankLine, GarbageLine, NotUtf8Line, RequestLine(1, <<>>, << <<"cmd", "s", "reboot">> >>) }
    \cup { RequestLine(id, compute_hmac(Secrets[1], id, to_json(cmd)), to_json(cmd)) :
             id \in 0..MaxId, cmd \in FedCommands }
    \cup { RequestLine(id, compute_hmac(Secrets[2], id, to_json(cmd)), to_json(cmd)) :
             id \in 0..MaxId, cmd \in {MkdirP("/mnt/disk")} }
    \cup { RequestLine(1, hmac, to_json(MkdirP("/mnt/disk"))) :
             hmac \in { compute_hmac(Secrets[1], 2, to_json(MkdirP("/mnt/disk"))),
                        compute_hmac(Secrets[1], 1, to_json(Shutdown)),
                        SubSeq(compute_hmac(Secrets[1], 1, to_json(MkdirP("/mnt/disk"))), 1, 8) } }
    \cup { RequestLine(1, compute_hmac(Secrets[1], 1, to_json(c)), Reverse(to_json(c))) :
             c \in {Exec("mount", <<"-a">>)} }

InitDaemon ==
    /\ daemons = <<NewDaemon>>
    /\ ctx = ExecutionContext("None", None, FALSE)
    /\ threads = [t \in Threads |-> IdleThread]
    /\ borrow = 0
    /\ lock = 0
    /\ hist = NoHistory

\* run_daemon, one iteration of the loop, the line read being whatever the
\* holder of the daemon's pipes wrote, having read the daemon's output.
DaemonServeFed(d) ==
    /\ daemons[d].state = "serving"
    /\ daemons[d].stdin_open
    /\ hist.fed < MaxLines
    /\ \E line \in FedLines :
         /\ \E next \in Serve([daemons[d] EXCEPT !.out = <<>>], line) :
               daemons' = [daemons EXCEPT ![d] = next]
         /\ hist' = [hist EXCEPT !.fed = @ + 1, !.line = line]
    /\ UNCHANGED <<ctx, threads, borrow, lock>>

\* The holder of the daemon's pipes closes the daemon's stdin.
CloseInput(d) ==
    /\ daemons[d].stdin_open
    /\ daemons' = [daemons EXCEPT ![d].stdin_open = FALSE]
    /\ UNCHANGED <<ctx, threads, borrow, lock, hist>>

NextDaemon ==
    \/ DaemonHandshake(1)
    \/ DaemonServeFed(1)
    \/ DaemonEof(1)
    \/ DaemonReap(1)
    \/ CloseInput(1)

SpecDaemon == InitDaemon /\ [][NextDaemon]_vars

\* The operating system runs the daemon: a read of its closed and emptied
\* stdin returns.
SpecDaemonFair == SpecDaemon /\ WF_vars(DaemonEof(1))

---------------------------------------------------------------------------
(* The functions of protocol.rs, called on drawn arguments *)

\* The (secret, id, payload) a signature is computed for.
Triples ==
    [secret : generate_secret, id : 0..MaxId,
     payload : { to_json(cmd) : cmd \in {Exec("mount", <<"-a">>), MkdirP("/mnt/disk"), Shutdown} }]

\* A triple and the ones that differ from it in exactly one component.
OneChanged(triple) ==
    { other \in Triples :
        \/ other = triple
        \/ other.secret # triple.secret /\ other.id = triple.id /\ other.payload = triple.payload
        \/ other.secret = triple.secret /\ other.id # triple.id /\ other.payload = triple.payload
        \/ other.secret = triple.secret /\ other.id = triple.id /\ other.payload # triple.payload }

\* A hex digit other than c.
OtherDigit(c) == IF c = "0" THEN "1" ELSE "0"

\* A signature text as it is, cut by a character, longer by one, with its
\* first, a middle or its last character replaced, and the empty text.
Variants(text) ==
    { text, SubSeq(text, 1, Len(text) - 1), text \o <<"0">>, <<>>,
      [text EXCEPT ![1] = OtherDigit(@)],
      [text EXCEPT ![Len(text) \div 2] = OtherDigit(@)],
      [text EXCEPT ![Len(text)] = OtherDigit(@)] }

\* The requests a client makes: create_signed_request of a command of each
\* kind under an id and a session's secret.
Requests ==
    { create_signed_request([secret |-> secret], id, cmd) :
        secret \in generate_secret, id \in 1..MaxId, cmd \in FedCommands }

\* The responses a daemon makes.
Responses ==
    { DaemonResponse(id, success, exit_code, stdout, stderr, error) :
        id \in 0..MaxId, success \in BOOLEAN, exit_code \in {-1, 0, 1},
        stdout \in {"", "mounted"}, stderr \in {"", "busy"},
        error \in {None, Some(HmacMessage)} }

\* A call not yet made (fn is empty, call names the function to be called):
\* of verify_hmac, its signature argument being a variant of the signature
\* computed for made_for, or of the encoding and decoding of a request or a
\* response.
Call(call, args, made_for, signature) ==
    [fn |-> "", call |-> call, args |-> args, made_for |-> made_for,
     signature |-> signature, returned |-> None]

\* The calls drawn: hist holds one; the rest of the state is a context at
\* rest.
InitProtocol ==
    /\ daemons = <<>>
    /\ ctx = ExecutionContext("None", None, FALSE)
    /\ threads = [t \in Threads |-> IdleThread]
    /\ borrow = 0
    /\ lock = 0
    /\ \/ \E triple \in Triples :
            \E other \in OneChanged(triple) :
               \E signature \in Variants(compute_hmac(other.secret, other.id, other.payload)) :
                  hist = Call("verify_hmac", triple, other, signature)
       \/ \E secret \in generate_secret, request \in Requests :
            hist = Call("request", request, secret, request.hmac)
       \/ \E response \in Responses :
            hist = Call("response", response, response, <<>>)

\* fn verify_hmac is called on the arguments.
CallVerifyHmac ==
    /\ hist.fn = ""
    /\ hist.call = "verify_hmac"
    /\ hist' = [hist EXCEPT
                  !.fn = "verify_hmac",
                  !.returned = Some(verify_hmac(hist.args.secret, hist.args.id,
                                                hist.args.payload, hist.signature))]
    /\ UNCHANGED <<daemons, ctx, threads, borrow, lock>>

\* A request is serialized by the client (send_request) and the line is
\* deserialized by the daemon (run_daemon).
RoundTripRequest ==
    /\ hist.fn = ""
    /\ hist.call = "request"
    /\ hist' = [hist EXCEPT
                  !.fn = "request",
                  !.returned = Some(request_from_line(request_to_line(hist.args)))]
    /\ UNCHANGED <<daemons, ctx, threads, borrow, lock>>

\* A response is serialized by the daemon (write_response) and the line is
\* deserialized by the client (send_request).
RoundTripResponse ==
    /\ hist.fn = ""
    /\ hist.call = "response"
    /\ hist' = [hist EXCEPT
                  !.fn = "response",
                  !.returned = Some(response_from_json(response_to_json(hist.args)))]
    /\ UNCHANGED <<daemons, ctx, threads, borrow, lock>>

NextProtocol ==
    \/ CallVerifyHmac
    \/ RoundTripRequest
    \/ RoundTripResponse

SpecProtocol == InitProtocol /\ [][NextProtocol]_vars

---------------------------------------------------------------------------
(* The spawners, called on a drawn answer of the operating system *)

\* StdDaemonSpawner::spawn.  wrapper is None or Some(tool).  os is what the
\* operating system answers: binary, whether cli_path exists; probe, the
\* result of running `wrapper --version`; start, the result of cmd.spawn()
\* ("Ok", or the kind of its io::Error).
StdDaemonSpawner_spawn(wrapper, os) ==
    IF ~os.binary THEN "SidecarNotFound"
    ELSE IF wrapper \in {Some("pkexec"), Some("sudo")} /\ os.probe # "Ok"
    THEN "EscalationToolNotFound"
    ELSE IF os.start = "Ok" THEN "Ok"
    ELSE IF os.start = "NotFound"
    THEN IF wrapper = None THEN "SidecarNotFound"
         ELSE IF wrapper \in {Some("pkexec"), Some("sudo")} THEN "EscalationToolNotFound"
         ELSE "SessionCreation"
    ELSE "SessionCreation"

\* TauriPkexecSpawner::spawn: the wrapper is always pkexec.
TauriPkexecSpawner_spawn(os) ==
    IF ~os.binary THEN "SidecarNotFound"
    ELSE IF os.probe # "Ok" THEN "EscalationToolNotFound"
    ELSE IF os.start = "Ok" THEN "Ok"
    ELSE IF os.start = "NotFound" THEN "EscalationToolNotFound"
    ELSE "SessionCreation"

\* A spawner of either type and an answer of the operating system are
\* drawn, spawn not yet called.  A tool that is missing is NotFound; one
\* that is there but may not be run, or a process table that is full, is
\* another kind of error.
InitSpawner ==
    /\ daemons = <<>>
    /\ ctx = ExecutionContext("PkexecSession", None, TRUE)
    /\ threads = [t \in Threads |-> IdleThread]
    /\ borrow = 0
    /\ lock = 0
    /\ \E type \in {"StdDaemonSpawner", "TauriPkexecSpawner"} :
         \E wrapper \in {None, Some("pkexec"), Some("sudo"), Some("doas")} :
            \E binary \in BOOLEAN :
               \E probe, start \in {"Ok", "NotFound", "PermissionDenied", "WouldBlock"} :
                  /\ type = "TauriPkexecSpawner" => wrapper = Some("pkexec")
                  /\ hist = [fn |-> "", type |-> type, wrapper |-> wrapper,
                             os |-> [binary |-> binary, probe |-> probe, start |-> start],
                             returned |-> None]

\* spawner.spawn() is called: on Ok there is a child process.
CallSpawn ==
    /\ hist.fn = ""
    /\ \E result \in { IF hist.type = "StdDaemonSpawner"
                       THEN StdDaemonSpawner_spawn(hist.wrapper, hist.os)
                       ELSE TauriPkexecSpawner_spawn(hist.os) } :
          /\ hist' = [hist EXCEPT !.fn = "spawn", !.returned = Some(result)]
          /\ daemons' = IF result = "Ok" THEN Append(daemons, NewDaemon) ELSE daemons
    /\ UNCHANGED <<ctx, threads, borrow, lock>>

NextSpawner == CallSpawn

SpecSpawner == InitSpawner /\ [][NextSpawner]_vars

---------------------------------------------------------------------------
(* fstab.rs: the managed block of an fstab file *)

MANAGED_BLOCK_BEGIN == "# BEGIN STEAMOS-MOUNT-MANAGED"
MANAGED_BLOCK_END == "# END STEAMOS-MOUNT-MANAGED"
MANAGED_BLOCK_COMMENT == "# Created by SteamOS Mount Tool. DO NOT EDIT THIS BLOCK MANUALLY."

\* The lines an fstab file is made of here: the markers, a marker written
\* with blanks around it, the comment of the block, the line of an entry
\* (FstabEntry::to_fstab_line), and a line of the user's.
FstabLines ==
    { MANAGED_BLOCK_BEGIN, "  # BEGIN STEAMOS-MOUNT-MANAGED ", MANAGED_BLOCK_END,
      MANAGED_BLOCK_COMMENT, "UUID=1  /home/deck/Drives/A  ntfs3  rw,noatime  0  0",
      "UUID=0  /  ext4  defaults  0  1" }

\* str::trim
trim(line) == IF line = "  # BEGIN STEAMOS-MOUNT-MANAGED " THEN MANAGED_BLOCK_BEGIN ELSE line

\* update_managed_entries_content, the loop over content.lines(): the lines
\* before the block and the lines after it.
RECURSIVE ScanLines(_, _, _, _, _)
ScanLines(lines, in_managed_block, past_managed_block, header_lines, footer_lines) ==
    IF lines = <<>> THEN [header_lines |-> header_lines, footer_lines |-> footer_lines]
    ELSE IF trim(Head(lines)) = MANAGED_BLOCK_BEGIN
    THEN ScanLines(Tail(lines), TRUE, past_managed_block, header_lines, footer_lines)
    ELSE IF trim(Head(lines)) = MANAGED_BLOCK_END
    THEN ScanLines(Tail(lines), FALSE, TRUE, header_lines, footer_lines)
    ELSE IF in_managed_block
    THEN ScanLines(Tail(lines), in_managed_block, past_managed_block, header_lines, footer_lines)
    ELSE IF past_managed_block
    THEN ScanLines(Tail(lines), in_managed_block, past_managed_block,
                   header_lines, Append(footer_lines, Head(lines)))
    ELSE ScanLines(Tail(lines), in_managed_block, past_managed_block,
                   Append(header_lines, Head(lines)), footer_lines)

update_managed_entries_content_KeepsBlock(content, entries) ==
    [lines |-> content.lines
               \o (IF entries # <<>>
                   THEN <<MANAGED_BLOCK_BEGIN, MANAGED_BLOCK_COMMENT>> \o entries
                        \o <<MANAGED_BLOCK_END>>
                   ELSE <<>>),
     terminated |-> TRUE]

\* fn update_managed_entries_content.  A content is its lines and whether
\* the last of them ends with a newline; entries are the entries' lines.
update_managed_entries_content(content, entries) ==
    LET scanned == ScanLines(content.lines, FALSE, FALSE, <<>>, <<>>)
    IN  [lines |-> scanned.header_lines
                   \o (IF entries # <<>>
                       THEN <<MANAGED_BLOCK_BEGIN, MANAGED_BLOCK_COMMENT>> \o entries
                            \o <<MANAGED_BLOCK_END>>
                       ELSE <<>>)
                   \o scanned.footer_lines,
         terminated |-> TRUE]

\* An fstab file of up to MaxFstabLines lines and a list of entries are
\* drawn; nothing is written yet.
InitFstab ==
    /\ daemons = <<>>
    /\ ctx = ExecutionContext("None", None, FALSE)
    /\ threads = [t \in Threads |-> IdleThread]
    /\ borrow = 0
    /\ lock = 0
    /\ \E n \in 0..MaxFstabLines :
         \E lines \in [1..n -> FstabLines], terminated \in BOOLEAN :
            \E entries \in { <<>>,
                             <<"UUID=1  /home/deck/Drives/A  ntfs3  rw,noatime  0  0">>,
                             <<"UUID=2  /home/deck/Drives/B  exfat  rw  0  0",
                               "UUID=1  /home/deck/Drives/A  ntfs3  rw,noatime  0  0">> } :
               /\ n = 0 => terminated
               /\ hist = [file |-> [lines |-> lines, terminated |-> terminated],
                          entries |-> entries, writes |-> 0, first |-> None]

\* fn write_managed_entries: the file is read, its content updated and
\* written back.
WriteManagedEntries ==
    /\ hist.writes < MaxWrites
    /\ \E new_content \in {update_managed_entries_content(hist.file, hist.entries)} :
          hist' = [hist EXCEPT !.file = new_content,
                               !.writes = @ + 1,
                               !.first = IF hist.writes = 0 THEN Some(new_content) ELSE @]
    /\ UNCHANGED <<daemons, ctx, threads, borrow, lock>>

NextFstab == WriteManagedEntries

SpecFstab == InitFstab /\ [][NextFstab]_vars

---------------------------------------------------------------------------
(* Claims about the daemon's request loop *)

Daemons == 1..Len(daemons)

Last(seq) == seq[Len(seq)]

StrictlyIncreasing(seq) == \A i, j \in 1..Len(seq) : i < j => seq[i] < seq[j]

\* In this step daemon d took a parsed request through the loop body: it
\* wrote a response, or dispatched (a Shutdown writes none).
ServedRequest(d) ==
    /\ d <= Len(daemons)
    /\ daemons[d].state = "serving"
    /\ \/ daemons'[d].written = daemons[d].written + 1
       \/ daemons'[d].executed # daemons[d].executed

\* daemon d's accepted state is the same after the step.
AcceptedStateUnchanged(d) ==
    /\ daemons'[d].last_id = daemons[d].last_id
    /\ daemons'[d].executed = daemons[d].executed
    /\ daemons'[d].secret = daemons[d].secret
    /\ daemons'[d].state = "serving"

\* C1: a command is executed only if its request id is greater than every
\* id accepted before, so the executed ids are strictly increasing and none
\* is executed twice; a request whose id is not greater than the last
\* accepted id, validly signed or not, is answered with the replay error
\* and success = false, and is not executed.
C1_ReplayStep ==
    \A d \in Daemons : ServedRequest(d) =>
        LET before == daemons[d]
            after == daemons'[d]
        IN  /\ after.executed # before.executed =>
                /\ after.executed = Append(before.executed, after.last.id)
                /\ after.last.id > before.last_id
                /\ \A i \in 1..Len(before.executed) : before.executed[i] < after.last.id
            /\ after.last.id <= before.last_id =>
                /\ after.executed = before.executed
                /\ after.written = before.written + 1
                /\ Last(after.out) = error_response(after.last.id, ReplayMessage)
                /\ ~Last(after.out).success

C1_NoReplayExecuted ==
    /\ [](\A d \in Daemons : StrictlyIncreasing(daemons[d].executed))
    /\ [][C1_ReplayStep]_vars

\* C1 witness: an id already executed came again, validly signed, and was
\* answered with the replay error.
C1_Witness ==
    \E d \in Daemons :
        /\ daemons[d].last.outcome = "replay"
        /\ daemons[d].last.signed
        /\ \E i \in 1..Len(daemons[d].executed) : daemons[d].executed[i] = daemons[d].last.id
        /\ daemons[d].out # <<>>
        /\ Last(daemons[d].out) = error_response(daemons[d].last.id, ReplayMessage)

\* C2: the daemon dispatches a command only if the request's hmac is the
\* signature of its id and command under the daemon's secret; a request
\* with a fresh id and any other hmac is answered with the
\* authentication-failed error and is not dispatched.
C2_AuthStep ==
    \A d \in Daemons : ServedRequest(d) =>
        LET before == daemons[d]
            after == daemons'[d]
        IN  /\ after.executed # before.executed => after.last.signed
            /\ (after.last.id > before.last_id /\ ~after.last.signed) =>
                /\ after.executed = before.executed
                /\ after.written = before.written + 1
                /\ Last(after.out) = error_response(after.last.id, HmacMessage)
                /\ ~Last(after.out).success

C2_OnlySignedDispatched ==
    /\ [](\A d \in Daemons : daemons[d].last.outcome = "dispatched" => daemons[d].last.signed)
    /\ [][C2_AuthStep]_vars

\* C2 witness: a request with a fresh id and a wrong hmac was refused with
\* the authentication error after another had been dispatched.
C2_Witness ==
    \E d \in Daemons :
        /\ daemons[d].last.outcome = "unauthentic"
        /\ daemons[d].last.id > daemons[d].last_id
        /\ daemons[d].executed # <<>>
        /\ daemons[d].out # <<>>
        /\ Last(daemons[d].out) = error_response(daemons[d].last.id, HmacMessage)

\* C3: a request rejected for its signature leaves last_id unchanged, so
\* the next request, carrying the same id correctly signed, is dispatched.
C3_RejectStep ==
    \A d \in Daemons : (ServedRequest(d) /\ daemons'[d].last.outcome = "unauthentic") =>
        AcceptedStateUnchanged(d)

C3_SameIdAcceptedAfterMismatch ==
    /\ [](\A d \in Daemons :
            (/\ daemons[d].prev.outcome = "unauthentic"
             /\ daemons[d].last.id = daemons[d].prev.id
             /\ daemons[d].last.signed)
            => /\ daemons[d].last.outcome = "dispatched"
               /\ Last(daemons[d].executed) = daemons[d].last.id)
    /\ [][C3_RejectStep]_vars

\* C3 witness: id rejected for its signature, then dispatched when signed.
C3_Witness ==
    \E d \in Daemons :
        /\ daemons[d].prev.outcome = "unauthentic"
        /\ daemons[d].last.outcome = "dispatched"
        /\ daemons[d].last.id = daemons[d].prev.id

\* The ids executed before the request seen last.
ExecutedBeforeLast(dm) ==
    IF dm.last.outcome = "dispatched"
    THEN SubSeq(dm.executed, 1, Len(dm.executed) - 1)
    ELSE dm.executed

\* C4: a request rejected as a replay leaves the accepted state unchanged;
\* a signed request is dispatched exactly when its id is greater than every
\* id executed before (1,2,2,3: the second 2 is a replay and 3 is then
\* dispatched; 1,3,2: 3 is dispatched though not consecutive, 2 is a replay).
C4_ReplayFrameStep ==
    \A d \in Daemons : (ServedRequest(d) /\ daemons'[d].last.outcome = "replay") =>
        AcceptedStateUnchanged(d)

C4_ReplayLeavesStateUnchanged ==
    /\ [](\A d \in Daemons :
            LET dm == daemons[d]
                fresh == /\ dm.last.id > 0
                         /\ \A i \in 1..Len(ExecutedBeforeLast(dm)) :
                               ExecutedBeforeLast(dm)[i] < dm.last.id
            IN  dm.last.outcome # "none" =>
                  /\ (dm.last.signed /\ fresh) <=> dm.last.outcome = "dispatched"
                  /\ ~fresh <=> dm.last.outcome = "replay")
    /\ [][C4_ReplayFrameStep]_vars

\* C4 witness: ids 1, 2, 2, 3: the replayed 2 was rejected, then 3 dispatched.
C4_Witness ==
    \E d \in Daemons :
        /\ daemons[d].executed = <<1, 2, 3>>
        /\ daemons[d].prev = [id |-> 2, signed |-> TRUE, outcome |-> "replay"]
        /\ daemons[d].last = [id |-> 3, signed |-> TRUE, outcome |-> "dispatched"]

\* ids 1, 3, 2: 3 was dispatched after 1, then 2 rejected as a replay.
C4_NonConsecutive ==
    \E d \in Daemons :
        /\ daemons[d].executed = <<1, 3>>
        /\ daemons[d].prev = [id |-> 3, signed |-> TRUE, outcome |-> "dispatched"]
        /\ daemons[d].last = [id |-> 2, signed |-> TRUE, outcome |-> "replay"]

---------------------------------------------------------------------------
(* Claims about the execution context and its session *)

\* Thread t leaves the position it is at in this step.
Moves(t) == threads'[t] # threads[t]

\* C5: on a context in a session strategy with no spawner and no session,
\* every privileged verb returns the SessionCreation error that says no
\* session is available, spawning nothing, writing no request and running
\* nothing on the local OS; and no context in a session strategy ever runs
\* an operation on the local OS.
C5_NoSessionStep ==
    \A t \in Threads :
        (threads[t].pc = "ensure" /\ ctx.session = None /\ ~ctx.spawner /\ Moves(t)) =>
            /\ threads'[t].pc = "idle"
            /\ hist'.result = Err(threads[t].verb, "SessionCreation", NoSessionMessage)
            /\ daemons' = daemons
            /\ ctx' = ctx
            /\ hist'.local = hist.local /\ hist'.sent = hist.sent
            /\ hist'.spawn_calls = hist.spawn_calls

C5_NoSessionNoSpawnerFails ==
    /\ [](IsSessionMode(ctx.escalation) => hist.local = 0)
    /\ [](\A t \in Threads :
            threads[t].pc \in {"ensure", "lock", "send", "recv"} =>
                IsSessionMode(ctx.escalation) /\ threads[t].verb \in Verbs)
    /\ [][C5_NoSessionStep]_vars

\* C5 witness: the third verb called on such a context has returned that
\* error, as the others did: nothing was spawned, sent or run locally.
C5_Witness ==
    /\ IsSessionMode(ctx.escalation) /\ ~ctx.spawner /\ ctx.session = None
    /\ hist.ops = 3
    /\ hist.result = Err("write_file", "SessionCreation", NoSessionMessage)
    /\ daemons = <<>> /\ hist.local = 0 /\ hist.sent = <<>>

\* C6: over the lifetime of a context in a session strategy the spawner is
\* invoked at most once.
C6_SpawnerInvokedAtMostOnce == hist.spawn_calls <= 1

\* What does hold: once a session is stored, the spawner is not invoked.
C6_NoSpawnOnceSessionStored ==
    [][ctx.session # None => hist'.spawn_calls = hist.spawn_calls]_vars

\* C7: a session's request id counter starts at 1; every operation,
\* shutdown included, takes its value as the request's id and increments
\* it, whether or not the request can then be written; the ids written are
\* strictly increasing and all below the counter.
C7_TakeIdStep ==
    /\ (ctx.session = None /\ ctx'.session # None) => ctx'.session[1].request_id = 1
    /\ (ctx.session # None) =>
          /\ ctx'.session # None
          /\ ctx'.session[1].request_id >= ctx.session[1].request_id
          /\ hist'.sent # hist.sent =>
                hist'.sent = Append(hist.sent, ctx.session[1].request_id)
    /\ (ctx.session # None /\ ((\E t \in Threads : threads[t].pc = "send" /\ Moves(t))
                               \/ (ctx.life = "live" /\ ctx'.life # "live"))) =>
          ctx'.session[1].request_id = ctx.session[1].request_id + 1

C7_IdsIncreaseNeverReused ==
    /\ [](/\ StrictlyIncreasing(hist.sent)
          /\ ctx.session = None => hist.sent = <<>>
          /\ ctx.session # None =>
                /\ ctx.session[1].request_id >= 1
                /\ \A i \in 1..Len(hist.sent) : 1 <= hist.sent[i] /\ hist.sent[i] < ctx.session[1].request_id)
    /\ [][C7_TakeIdStep]_vars

\* C7 witness: requests 1 and 2 were written, the daemon died, the third
\* operation took id 3 and the shutdown id 4 though neither could be written.
C7_Witness ==
    /\ ctx.session # None
    /\ ctx.session[1].request_id = 5
    /\ hist.sent = <<1, 2>>
    /\ ctx.life = "dropped"

\* C8: the daemon dispatches every request its session sends: the session
\* holds the daemon's secret, the id of each request is above last_id, and
\* no request is refused as a replay or for its signature.
C8_EveryRequestAccepted ==
    /\ \A d \in Daemons :
          /\ daemons[d].last.outcome \in {"none", "dispatched"}
          /\ daemons[d].prev.outcome \in {"none", "dispatched"}
          /\ \A i \in 1..Len(daemons[d].stdin) :
                /\ request_from_line(daemons[d].stdin[i]) # BadRequest
                /\ request_from_line(daemons[d].stdin[i]).id > daemons[d].last_id
                /\ IsAuthentic(daemons[d].secret, request_from_line(daemons[d].stdin[i]))
    /\ ctx.session # None =>
          /\ ctx.session[1].secret = daemons[ctx.session[1].child].secret
          /\ ctx.session[1].request_id > daemons[ctx.session[1].child].last_id
    /\ ~contains(hist.result.message, "Security")

\* C8 witness: the daemon of a session has dispatched requests 1 and 2 and
\* the Shutdown after them.
C8_Witness ==
    /\ ctx.session # None
    /\ daemons[ctx.session[1].child].executed = <<1, 2, 3>>
    /\ daemons[ctx.session[1].child].state = "exited"
    /\ daemons[ctx.session[1].child].code = Some(0)

\* C9: on a session requests and responses alternate one to one: a request
\* is written only when every request before it was answered and the
\* answer read; an operation that wrote its request reads one line, which
\* is the response carrying the id of that request, the last one written,
\* and that response is the one handed to the caller.  (shutdown writes its
\* request last and reads nothing: the daemon answers a Shutdown by exiting.)
C9_WriteStep ==
    (hist'.sent # hist.sent) =>
        /\ Len(hist.sent) = hist.read
        /\ daemons[ctx.session[1].child].stdin = <<>>
        /\ daemons[ctx.session[1].child].out = <<>>

C9_ReadStep ==
    \A t \in Threads :
        (threads[t].pc = "recv" /\ Moves(t)) =>
            LET d == ctx.session[1].child
            IN  /\ threads[t].id = Last(hist.sent)
                /\ daemons[d].out # <<>> =>
                      /\ daemons[d].out = <<DaemonResponse(threads[t].id,
                                                           Head(daemons[d].out).success,
                                                           Head(daemons[d].out).exit_code,
                                                           Head(daemons[d].out).stdout,
                                                           Head(daemons[d].out).stderr,
                                                           Head(daemons[d].out).error)>>
                      /\ daemons'[d].out = <<>>
                      /\ hist'.read = hist.read + 1
                /\ daemons[d].out = <<>> => hist'.read = hist.read /\ ~hist'.result.ok
                /\ hist'.result.ok =>
                      /\ hist'.result.response = Head(daemons[d].out)
                      /\ hist'.result.response.id = threads[t].id

C9_RequestsAndResponsesAlternate ==
    /\ [](hist.read <= Len(hist.sent) /\ Len(hist.sent) <= hist.read + 1)
    /\ [][C9_WriteStep /\ C9_ReadStep]_vars

\* C9 witness: the second operation of a session returned the response to
\* request 2, after the first returned the response to request 1.
C9_Witness ==
    /\ hist.sent = <<1, 2>>
    /\ hist.read = 2
    /\ hist.result.ok
    /\ hist.result.response.id = 2

\* C10: callers of one context reach its session one at a time: whoever is
\* in a session operation holds the session's lock, at most one caller is,
\* at most one request lies unread in the daemon's input, and no request is
\* written while a caller awaits a response.
C10_NoWriteWhileAwaiting ==
    (hist'.sent # hist.sent) => \A t \in Threads : threads[t].pc # "recv"

C10_SessionAccessSerialized ==
    /\ [](/\ Cardinality({t \in Threads : threads[t].pc \in {"send", "recv"}}) <= 1
          /\ \A t \in Threads : threads[t].pc \in {"send", "recv"} => lock = t
          /\ \A d \in Daemons : Len(daemons[d].stdin) <= 1)
    /\ [][C10_NoWriteWhileAwaiting]_vars

\* C10 witness: caller 1 had an operation answered on the session, and
\* caller 2 now awaits the answer to the next request, holding the lock.
C10_Witness ==
    /\ hist.by = 1
    /\ hist.read = 1
    /\ threads[2].pc = "recv"
    /\ threads[2].id = 2
    /\ lock = 2

---------------------------------------------------------------------------
(* Claims about the daemon's start and the lines it refuses *)

\* A line is written: the handshake by a starting daemon, and nothing but
\* a response by a serving one.
C11_WriteStep ==
    \A d \in Daemons :
        daemons'[d].written # daemons[d].written =>
            /\ daemons'[d].written = daemons[d].written + 1
            /\ IF daemons[d].state = "starting"
               THEN /\ daemons[d].written = 0
                    /\ Last(daemons'[d].out) = HandshakeLine(hex_encode(daemons'[d].secret))
               ELSE /\ daemons[d].state = "serving"
                    /\ Last(daemons'[d].out).type = "response"

\* C11: the daemon writes the handshake exactly once, as the first line of
\* its output, before it reads any request; every later line it writes is
\* a response.
C11_HandshakeOnceAndFirst ==
    /\ [](\A d \in Daemons :
            /\ daemons[d].state = "starting" =>
                  /\ daemons[d].written = 0
                  /\ daemons[d].executed = <<>>
                  /\ daemons[d].last = NoRequestSeen
                  /\ hist.fed = 0
            /\ daemons[d].state = "serving" => daemons[d].written >= 1)
    /\ [][C11_WriteStep]_vars

\* C11 witness: the daemon has written the handshake and then three
\* responses, the last of them now in its output.
C11_Witness ==
    \E d \in Daemons :
        /\ daemons[d].written = 4
        /\ daemons[d].out # <<>>
        /\ Last(daemons[d].out).type = "response"

\* A line that is read and not dispatched leaves the daemon as it was.
C12_RefusedStep ==
    \A d \in Daemons :
        (hist'.fed = hist.fed + 1 /\ daemons'[d].executed = daemons[d].executed) =>
            /\ daemons'[d].state = "serving"
            /\ daemons'[d].last_id = daemons[d].last_id
            /\ daemons'[d].secret = daemons[d].secret
            /\ daemons'[d].stdin_open = daemons[d].stdin_open

\* A signed request with a fresh id is dispatched and answered.
C12_FreshSignedStep ==
    \A d \in Daemons :
        (ServedRequest(d) /\ daemons'[d].last.signed
                          /\ daemons'[d].last.id > daemons[d].last_id) =>
            /\ daemons'[d].last.outcome = "dispatched"
            /\ daemons'[d].executed = Append(daemons[d].executed, daemons'[d].last.id)
            /\ \/ /\ daemons'[d].written = daemons[d].written + 1
                  /\ Last(daemons'[d].out).id = daemons'[d].last.id
                  /\ daemons'[d].state = "serving"
               \/ /\ daemons'[d].written = daemons[d].written
                  /\ daemons'[d].state = "dying"

\* C12: no line ends the daemon unless it is dispatched: after a blank
\* line, an unparseable line, a replayed request or a wrongly signed one
\* the daemon is still serving with its accepted state unchanged, and a
\* signed request with a fresh id that follows is dispatched and answered
\* (a Shutdown by the daemon's exit).
C12_BadRequestsLeaveDaemonServing == [][C12_RefusedStep /\ C12_FreshSignedStep]_vars

\* What does hold: a line that is a request, dispatched or refused, leaves
\* the daemon serving unless it is a dispatched Shutdown.
C12_RequestsLeaveDaemonServing ==
    [][\A d \in Daemons :
          (ServedRequest(d) /\ daemons'[d].written = daemons[d].written + 1) =>
              daemons'[d].state = "serving"]_vars

---------------------------------------------------------------------------
(* Claims about the end of a session *)

\* The session in the model has been dropped, or its drop is under way:
\* the context that stored it is dropping or dropped, or its owner is in
\* or past the drop.
DropStarted ==
    \/ ctx.session # None /\ ctx.life \in {"dropping", "dropped"}
    \/ \E t \in Threads : threads[t].pc \in {"own_drop_wait", "done"}

DropCompleted ==
    \/ ctx.session # None /\ ctx.life = "dropped"
    \/ \E t \in Threads : threads[t].pc = "done"

\* The daemon of the session being dropped.
DroppedChild ==
    IF ctx.session # None THEN ctx.session[1].child
    ELSE threads[CHOOSE t \in Threads : threads[t].held # None].held[1].child

\* C13: over the lifetime of a session the shutdown sequence runs exactly
\* once: never twice, and once by the time the session is dropped, also
\* when its owner called shutdown before dropping it.
C13_ShutdownAttemptedOnce ==
    /\ hist.shutdowns <= 1
    /\ DropStarted => hist.shutdowns = 1

\* What does hold: the drop always runs the sequence, so a session that
\* is dropped has run it once or, after an explicit shutdown, twice.
C13_DropAlwaysShutsDown ==
    /\ hist.shutdowns <= 2
    /\ DropStarted => hist.shutdowns >= 1
    /\ hist.shutdowns = 2 => \E t \in Threads : threads[t].pc \in {"own_drop_wait", "done"}

\* C14: whenever a session has been dropped, on every path (a failed
\* Shutdown write included), its daemon has terminated and has been waited
\* for.
C14_DroppedSessionChildReaped ==
    DropCompleted =>
        /\ daemons[DroppedChild].state = "exited"
        /\ daemons[DroppedChild].reaped

\* What does hold: a dropped session's daemon is no longer serving, and it
\* has been waited for whenever the drop's Shutdown write succeeded.
C14_DroppedSessionChildStopped ==
    /\ DropCompleted => ~Running(daemons[DroppedChild])
    /\ [][/\ DropStarted /\ ~DropCompleted /\ DropCompleted'
          => daemons'[DroppedChild].state = "exited" /\ daemons'[DroppedChild].reaped]_vars

\* A step that starts the drop of the session: of the context that stored
\* it, or of its owner.
DropStep == ~DropStarted /\ DropStarted'

\* C15: the drop of a session always ends.  When its daemon has already
\* ended the drop completes in the step that starts it, waiting for
\* nothing; when the daemon is serving, the Shutdown request makes it exit
\* and the drop's wait returns.
C15_DropTerminates ==
    /\ [][DropStep /\ ~Running(daemons[DroppedChild'])
            => DropCompleted' /\ hist'.sent = hist.sent]_vars
    /\ [][DropStep /\ Running(daemons[DroppedChild'])
            => /\ ~DropCompleted'
               /\ daemons'[DroppedChild'].stdin # <<>>
               /\ request_from_line(Last(daemons'[DroppedChild'].stdin)).cmd = Shutdown]_vars
    /\ (DropStarted ~> DropCompleted)

\* A drop that found its daemon serving has completed: the daemon ran the
\* Shutdown it was sent, exited with status 0 and was waited for.
C15_Witness ==
    /\ DropCompleted
    /\ daemons[DroppedChild].reaped
    /\ daemons[DroppedChild].code = Some(0)
    /\ daemons[DroppedChild].last.outcome = "dispatched"
    /\ daemons[DroppedChild].last.id = Last(hist.sent)

\* In this step daemon d read the line at the head of its input, a request
\* for Shutdown, and accepted it.
AcceptsShutdown(d) ==
    /\ daemons[d].state = "serving"
    /\ daemons[d].stdin # <<>>
    /\ daemons'[d].stdin = Tail(daemons[d].stdin)
    /\ request_from_line(Head(daemons[d].stdin)) # BadRequest
    /\ request_from_line(Head(daemons[d].stdin)).cmd = Shutdown
    /\ daemons'[d].last.outcome = "dispatched"

\* C16: the step in which a daemon accepts a Shutdown request takes it
\* from serving to its end (exit status 0) and writes no response; a daemon
\* that has ended reads no further line of its input, executes no further
\* command and writes nothing.
C16_ShutdownEndsDaemonSilently ==
    /\ [][\A d \in Daemons : AcceptsShutdown(d) =>
            /\ daemons'[d].written = daemons[d].written
            /\ daemons'[d].out = daemons[d].out
            /\ daemons'[d].state = "dying"
            /\ daemons'[d].code = Some(0)]_vars
    /\ [][\A d \in Daemons : ~Running(daemons[d]) =>
            /\ ~Running(daemons'[d])
            /\ daemons'[d].stdin = daemons[d].stdin
            /\ daemons'[d].executed = daemons[d].executed
            /\ daemons'[d].written = daemons[d].written]_vars

\* A daemon has ended on an accepted Shutdown, having answered the
\* requests before it and not the Shutdown, with a further request line
\* left unread in its input.
C16_Witness ==
    \E d \in Daemons :
        /\ ~Running(daemons[d])
        /\ daemons[d].code = Some(0)
        /\ daemons[d].last.outcome = "dispatched"
        /\ Len(daemons[d].executed) >= 2
        /\ daemons[d].written = Len(daemons[d].executed)
        /\ daemons[d].stdin # <<>>

---------------------------------------------------------------------------
(* Claims about the construction of a session *)

\* The diagnostic text a construction error carries for a child: what the
\* child wrote to its stderr, or the words that say it wrote nothing.
DiagnosticText(dm) == IF dm.stderr = <<>> THEN NoStderrMessage ELSE dm.stderr

\* The step of a caller that is at the start of PrivilegedSession::new
\* while the child handed to it has already exited.
FindsChildExited(t) ==
    /\ threads[t].pc = "new_try_wait"
    /\ Moves(t)
    /\ daemons[threads[t].child].state = "exited"

\* C17: construction first polls the child.  A child that has already
\* exited with status 126 makes it fail with AuthenticationCancelled; one
\* that exited otherwise makes it fail with a SessionCreation error whose
\* message carries the exit code and the diagnostic text; either way the
\* caller is back with the error, no handshake was read and no session was
\* created.  A child that has not exited takes construction to the
\* handshake read.
C17_ExitedChildFailsConstruction ==
    [][\A t \in Threads :
        /\ FindsChildExited(t) =>
            LET dm == daemons[threads[t].child]
            IN  /\ hist'.result =
                     IF dm.code = Some(126)
                     THEN Err(threads[t].verb, "AuthenticationCancelled", <<>>)
                     ELSE Err(threads[t].verb, "SessionCreation",
                              EarlyExitMessage \o <<ToString(unwrap_or(dm.code, -1))>>
                                 \o DiagnosticText(dm))
                /\ hist'.by = t
                /\ threads'[t] = IdleThread
                /\ ctx'.session = ctx.session
                /\ threads'[t].held = None
        /\ (threads[t].pc = "new_try_wait" /\ Moves(t) /\ ~FindsChildExited(t)) =>
                threads'[t].pc = "new_read"]_vars

\* Construction has failed on a child found exited with a status other
\* than 126, which had written a diagnostic: the error names the code 127
\* and carries the text.
C17_Witness ==
    /\ ~hist.result.ok
    /\ hist.result.error = "SessionCreation"
    /\ hist.result.message = EarlyExitMessage \o <<"127", "Not", "authorized">>
    /\ ctx.session = None

\* The step of a caller whose handshake read returns no line: the child
\* has closed its output without writing one.
ReadsNoHandshake(t) ==
    /\ threads[t].pc = "new_read"
    /\ Moves(t)
    /\ daemons[threads[t].child].out = <<>>

\* C18: when the child produces no handshake line and its exit status is
\* 126, construction fails with AuthenticationCancelled, whether or not the
\* exit is observable yet when the read returns; with any other status it
\* fails with a SessionCreation error.
C18_NoHandshakeClassifiedByExitStatus ==
    [][\A t \in Threads : ReadsNoHandshake(t) =>
          hist'.result =
             IF daemons[threads[t].child].code = Some(126)
             THEN Err(threads[t].verb, "AuthenticationCancelled", <<>>)
             ELSE Err(threads[t].verb, "SessionCreation", EmptyHandshakeMessage)]_vars

\* What does hold: the status decides only when the exit is already
\* observable at the poll that follows the read.
C18_NoHandshakeClassifiedByPoll ==
    [][\A t \in Threads : ReadsNoHandshake(t) =>
          hist'.result =
             IF /\ daemons[threads[t].child].state = "exited"
                /\ daemons[threads[t].child].code = Some(126)
             THEN Err(threads[t].verb, "AuthenticationCancelled", <<>>)
             ELSE Err(threads[t].verb, "SessionCreation", EmptyHandshakeMessage)]_vars

---------------------------------------------------------------------------
(* Claims about the daemon's rejections as the client reports them *)

\* The step of a caller whose operation reads, as its response, the
\* daemon's rejection with the given message.
ReadsRejection(t, message) ==
    /\ threads[t].pc = "recv"
    /\ Moves(t)
    /\ ctx.session # None
    /\ daemons[ctx.session[1].child].out # <<>>
    /\ Head(daemons[ctx.session[1].child].out).type = "response"
    /\ ~Head(daemons[ctx.session[1].child].out).success
    /\ Head(daemons[ctx.session[1].child].out).error = Some(message)

\* C19: an operation, of whatever kind, whose response is the daemon's
\* rejection for a signature that does not verify returns the error
\* 'Security verification failed' with the daemon's text, not a response,
\* an Ok value or the error of a failed command.
C19_SignatureRejectionIsSecurityError ==
    [][\A t \in Threads : ReadsRejection(t, HmacMessage) =>
          /\ hist'.result = Err(threads[t].verb, "SessionCommunication",
                                SecurityMessage \o HmacMessage)
          /\ hist'.by = t]_vars

\* A write_file whose request was interfered with has returned the
\* security error.
C19_Witness ==
    /\ hist.result = Err("write_file", "SessionCommunication", SecurityMessage \o HmacMessage)
    /\ \E d \in Daemons : daemons[d].last.outcome = "unauthentic"

\* C20: an operation, of whatever kind, whose response is the daemon's
\* rejection of a replayed id returns the same 'Security verification
\* failed' error as for a signature that does not verify.
C20_ReplayRejectionIsSecurityError ==
    [][\A t \in Threads : ReadsRejection(t, ReplayMessage) =>
          /\ hist'.result = Err(threads[t].verb, "SessionCommunication",
                                SecurityMessage \o ReplayMessage)
          /\ hist'.by = t]_vars

\* What does hold: the replay rejection is handed on as an ordinary
\* response, so run returns Ok with the response's exit code and the file
\* operations return the error of a failed command with the daemon's text.
C20_ReplayRejectionIsOrdinaryResponse ==
    [][\A t \in Threads : ReadsRejection(t, ReplayMessage) =>
          hist'.result =
             IF threads[t].verb = "run"
             THEN Ok("run", -1, Head(daemons[ctx.session[1].child].out))
             ELSE IF threads[t].verb = "run_checked"
             THEN check_output("run_checked",
                               Ok("run", -1, Head(daemons[ctx.session[1].child].out)))
             ELSE Err(threads[t].verb, "SessionCommunication", ReplayMessage)]_vars

---------------------------------------------------------------------------
(* Claims about the results of the verbs *)

\* What run checked returns, by the claim, for a command that ran and
\* ended with the given exit code, having written the given stderr.
CheckedResult(code, stderr) ==
    IF code = 0 THEN "Ok"
    ELSE IF code = 126 THEN "AuthenticationCancelled"
    ELSE "CommandExit"

\* result is what the claim says of run checked for that command.
IsCheckedResult(result, code, stderr) ==
    /\ result.ok <=> CheckedResult(code, stderr) = "Ok"
    /\ ~result.ok => result.error = CheckedResult(code, stderr)
    /\ result.error = "CommandExit" => result.message = <<ToString(code), stderr>>

\* The step in which a run checked on a session reads the response of a
\* command the daemon launched.
ReadsExecResponse(t) ==
    /\ threads[t].pc = "recv"
    /\ threads[t].verb = "run_checked"
    /\ Moves(t)
    /\ daemons[ctx.session[1].child].out # <<>>
    /\ Head(daemons[ctx.session[1].child].out).type = "response"
    /\ Head(daemons[ctx.session[1].child].out).error = None

\* C21: in every strategy run checked returns Ok exactly when the command
\* exited with status 0, AuthenticationCancelled exactly when it exited with
\* 126, and otherwise a CommandExit error with that exit code and the
\* stderr: on the local OS, directly or under a one-shot wrapper, and on a
\* session, where the exit code is the one the daemon's response carries.
C21_RunCheckedClassifiesExitCode ==
    /\ \A escalation \in {"None", "Pkexec", "Sudo"} :
         \A os \in {o \in OsResults(Exec("mount", <<"-a">>)) : o.ok /\ o.code # None} :
            IsCheckedResult(local_result(escalation, "run_checked", TRUE, os),
                            os.code[1], os.stderr)
    /\ [][\A t \in Threads : ReadsExecResponse(t) =>
            IsCheckedResult(hist'.result,
                            Head(daemons[ctx.session[1].child].out).exit_code,
                            Head(daemons[ctx.session[1].child].out).stderr)]_vars

\* What does hold on a session: Ok exactly for exit code 0, and for every
\* other exit code a CommandExit error with code -1, 126 included.
C21_SessionRunCheckedLosesExitCode ==
    [][\A t \in Threads : ReadsExecResponse(t) =>
          LET response == Head(daemons[ctx.session[1].child].out)
          IN  hist'.result =
                IF response.exit_code = 0 THEN Ok("run_checked", 0, response)
                ELSE Err("run_checked", "CommandExit", <<"-1", response.stderr>>)]_vars

---------------------------------------------------------------------------
(* Claims about sessions side by side *)

\* In this step daemon d reads a request line that carries the signature
\* of its id and command under the secret of daemon e.
ReadsLineSignedFor(d, e) ==
    /\ daemons[d].state = "serving"
    /\ daemons[d].stdin # <<>>
    /\ daemons'[d].stdin = Tail(daemons[d].stdin)
    /\ request_from_line(Head(daemons[d].stdin)) # BadRequest
    /\ Head(daemons[d].stdin).hmac =
          compute_hmac(daemons[e].secret, Head(daemons[d].stdin).id,
                       Head(daemons[d].stdin).members)

---------------------------------------------------------------------------
(* Claims about the functions of protocol.rs *)

\* The signature compute_hmac gives for a triple.
SignatureOf(triple) == compute_hmac(triple.secret, triple.id, triple.payload)

\* C23: verify_hmac(secret, id, payload, signature) is true exactly when
\* signature is compute_hmac(secret, id, payload): true of the computed
\* signature, false of a text of another length or with another character
\* anywhere.
C23_VerifyIffComputed ==
    hist.fn = "verify_hmac" =>
        (hist.returned = Some(TRUE) <=> hist.signature = SignatureOf(hist.args))

\* verify_hmac has returned false for the computed signature with its last
\* character replaced.
C23_Witness ==
    /\ hist.fn = "verify_hmac"
    /\ hist.returned = Some(FALSE)
    /\ hist.made_for = hist.args
    /\ Len(hist.signature) = Len(SignatureOf(hist.args))
    /\ \A i \in 1..Len(hist.signature) :
          hist.signature[i] # SignatureOf(hist.args)[i] <=> i = Len(hist.signature)

\* C24: the signature computed for a secret, an id and a payload does not
\* verify when one of the three is another: verify_hmac returns false.
C24_ChangedInputDoesNotVerify ==
    (/\ hist.fn = "verify_hmac"
     /\ hist.made_for # hist.args
     /\ hist.signature = SignatureOf(hist.made_for)) => hist.returned = Some(FALSE)

\* verify_hmac has returned false for the signature of the next id under
\* the same secret and payload.
C24_Witness ==
    /\ hist.fn = "verify_hmac"
    /\ hist.returned = Some(FALSE)
    /\ hist.signature = SignatureOf(hist.made_for)
    /\ hist.made_for = [hist.args EXCEPT !.id = @ + 1]

\* C25: a Request of each of the five command kinds, and a Response,
\* serialized and then deserialized is the value it was; the command the
\* daemon deserializes from a request's line serializes to the payload the
\* client signed, so that the request's signature verifies over it.
C25_RoundTrip ==
    /\ hist.fn = "request" =>
          /\ hist.returned = Some(hist.args)
          /\ to_json(hist.returned[1].cmd) = to_json(hist.args.cmd)
          /\ (hist.args.hmac = compute_hmac(hist.made_for, hist.args.id, to_json(hist.args.cmd))
                => verify_hmac(hist.made_for, hist.returned[1].id,
                               to_json(hist.returned[1].cmd), hist.returned[1].hmac))
    /\ hist.fn = "response" => hist.returned = Some(hist.args)

\* A WriteFile request signed under the secret at hand has made the round
\* trip.
C25_Witness ==
    /\ hist.fn = "request"
    /\ hist.args.cmd.tag = "WriteFile"
    /\ hist.args.hmac = compute_hmac(hist.made_for, hist.args.id, to_json(hist.args.cmd))
    /\ hist.returned # None

---------------------------------------------------------------------------
(* Claims about the daemon's answers and its accepted id *)

\* The request on the line daemon d reads next.
NextRequest(d) == request_from_line(Head(daemons[d].stdin))

\* Daemon d dispatches the request it reads in this step.
Dispatches(d) ==
    /\ daemons[d].state = "serving"
    /\ daemons[d].stdin # <<>>
    /\ Len(daemons'[d].executed) = Len(daemons[d].executed) + 1

\* The response the claim gives for an Exec request under an answer of the
\* operating system.
ExecResponseFor(id, os, response) ==
    /\ response.type = "response"
    /\ response.id = id
    /\ IF os.ok
       THEN /\ response.success <=> os.code = Some(0)
            /\ response.exit_code = unwrap_or(os.code, -1)
            /\ response.stdout = os.stdout
            /\ response.stderr = os.stderr
            /\ response.error = None
       ELSE /\ ~response.success
            /\ response.exit_code = -1
            /\ response.error # None
            /\ contains(response.error[1], "execute")

\* C26: the response a daemon writes for an Exec request it dispatches has
\* the request's id; its success is true exactly when the program's exit
\* code is 0 and it carries the exit code and the captured stdout and
\* stderr; when the program cannot be launched it has success false,
\* exit_code -1 and an error text that describes the failure.
C26_ExecStep ==
    \A d \in Daemons :
        (/\ Dispatches(d)
         /\ NextRequest(d).cmd.tag = "Exec"
         /\ daemons'[d].written = daemons[d].written + 1) =>
            /\ \E os \in OsResults(NextRequest(d).cmd) :
                  ExecResponseFor(NextRequest(d).id, os, Last(daemons'[d].out))
            /\ Last(daemons'[d].out).success <=> Last(daemons'[d].out).exit_code = 0

C26_ExecResponse == [][C26_ExecStep]_vars

\* A daemon has answered an Exec request whose program exited with 1.
C26_Witness ==
    \E d \in Daemons :
        /\ daemons[d].last.outcome = "dispatched"
        /\ daemons[d].out # <<>>
        /\ Last(daemons[d].out).type = "response"
        /\ Last(daemons[d].out).id = daemons[d].last.id
        /\ ~Last(daemons[d].out).success
        /\ Last(daemons[d].out).exit_code = 1
        /\ Last(daemons[d].out).stderr = "err"

---------------------------------------------------------------------------
(* Claims about the spawners *)

\* The tool a spawner runs the daemon under is pkexec or sudo.
StandardWrapper == hist.wrapper \in {Some("pkexec"), Some("sudo")}

\* The causes of a failed spawn: the daemon binary is missing; pkexec or
\* sudo is missing; the operating system refuses to start a process for
\* another reason.
BinaryMissing ==
    \/ ~hist.os.binary
    \/ hist.wrapper = None /\ hist.os.start = "NotFound"

ToolMissing ==
    /\ ~BinaryMissing
    /\ StandardWrapper
    /\ \/ hist.os.probe = "NotFound"
       \/ hist.os.probe = "Ok" /\ hist.os.start = "NotFound"

Refused ==
    /\ ~BinaryMissing
    /\ ~ToolMissing
    /\ \/ StandardWrapper /\ hist.os.probe # "Ok"
       \/ hist.os.start # "Ok"

\* C27: spawn returns the error of the cause: SidecarNotFound when the
\* daemon binary is missing, also when the tool is missing too;
\* EscalationToolNotFound when pkexec or sudo is missing; SessionCreation
\* when the operating system refuses to start the process for another
\* reason; and an error leaves no daemon process.
C27_SpawnErrorNamesCause ==
    hist.fn = "spawn" =>
        /\ BinaryMissing => hist.returned = Some("SidecarNotFound")
        /\ ToolMissing => hist.returned = Some("EscalationToolNotFound")
        /\ Refused => hist.returned = Some("SessionCreation")
        /\ hist.returned # Some("Ok") => daemons = <<>>

\* What holds of spawn: the binary is looked for first, a missing tool is
\* EscalationToolNotFound, a refusal of cmd.spawn() for another reason is
\* SessionCreation, an error leaves no daemon process; and a refusal to run
\* `pkexec --version` or `sudo --version` is EscalationToolNotFound whatever
\* its reason.
C27_SpawnErrors ==
    hist.fn = "spawn" =>
        /\ BinaryMissing => hist.returned = Some("SidecarNotFound")
        /\ ToolMissing => hist.returned = Some("EscalationToolNotFound")
        /\ Refused =>
              hist.returned = IF StandardWrapper /\ hist.os.probe # "Ok"
                              THEN Some("EscalationToolNotFound")
                              ELSE Some("SessionCreation")
        /\ hist.returned # Some("Ok") <=> (BinaryMissing \/ ToolMissing \/ Refused)
        /\ hist.returned # Some("Ok") => daemons = <<>>
        /\ hist.returned = Some("Ok") => Len(daemons) = 1

---------------------------------------------------------------------------
(* Claims about the daemon's accepted id and the order of its checks *)

\* The request daemon d takes through the loop body in this step has an id
\* above last_id and the signature of its id and command.
PassesBothChecks(d) ==
    /\ ServedRequest(d)
    /\ daemons'[d].last.signed
    /\ daemons'[d].last.id > daemons[d].last_id

\* C28: last_id is the id of the most recent request that passed the replay
\* check and the signature check, 0 while there is none; it never
\* decreases; it is set when the request passes, whatever the command is or
\* does: also for Shutdown and for a command that fails.
C28_LastIdStep ==
    \A d \in Daemons :
        /\ daemons'[d].last_id >= daemons[d].last_id
        /\ daemons'[d].last_id = IF PassesBothChecks(d) THEN daemons'[d].last.id
                                 ELSE daemons[d].last_id

C28_LastIdIsLastAccepted ==
    /\ [](\A d \in Daemons :
            /\ daemons[d].executed = <<>> => daemons[d].last_id = 0
            /\ daemons[d].executed # <<>> => daemons[d].last_id = Last(daemons[d].executed))
    /\ [][C28_LastIdStep]_vars

\* A command that passed both checks with id 2, after id 1, has failed, and
\* last_id is 2.
C28_Witness ==
    \E d \in Daemons :
        /\ daemons[d].last = [id |-> 2, signed |-> TRUE, outcome |-> "dispatched"]
        /\ daemons[d].prev.outcome = "dispatched"
        /\ daemons[d].out # <<>>
        /\ Last(daemons[d].out) = error_response(2, MkdirFailedMessage)
        /\ daemons[d].last_id = 2

\* C29: the replay check comes before the signature check: a request whose
\* id is not above last_id is answered with the replay error, its signature
\* being valid or not, and only a request with a fresh id is answered with
\* the signature error.
C29_ReplayFirstStep ==
    \A d \in Daemons :
        ServedRequest(d) =>
            /\ daemons'[d].last.id <= daemons[d].last_id =>
                  /\ daemons'[d].last.outcome = "replay"
                  /\ daemons'[d].out # <<>>
                  /\ Last(daemons'[d].out) = error_response(daemons'[d].last.id, ReplayMessage)
            /\ daemons'[d].last.outcome = "unauthentic" =>
                  daemons'[d].last.id > daemons[d].last_id

C29_ReplayCheckedFirst == [][C29_ReplayFirstStep]_vars

\* A request with a stale id and a wrong signature was answered with the
\* replay error.
C29_Witness ==
    \E d \in Daemons :
        /\ daemons[d].last.outcome = "replay"
        /\ ~daemons[d].last.signed
        /\ daemons[d].last.id > 0
        /\ daemons[d].out # <<>>
        /\ Last(daemons[d].out) = error_response(daemons[d].last.id, ReplayMessage)

---------------------------------------------------------------------------
(* Claims about the lines that are no requests *)

\* The line is blank, or it does not parse as a DaemonRequest: it is no
\* UTF-8 text, no JSON object with an id and an hmac, or its cmd is none of
\* the five.
NoRequest(line) ==
    \/ line.kind # "object"
    \/ ~HasField(line.members, "cmd", "s")
    \/ Field(line.members, "cmd", "s") \notin
          {"exec", "write_file", "copy_file", "mkdir_p", "shutdown"}

\* C30: a blank line, and a line that does not parse as a request (one
\* whose cmd is not exec, write_file, copy_file, mkdir_p or shutdown
\* included), is read without a command being executed, a response being
\* written or last_id being changed.
C30_NoRequestStep ==
    \A d \in Daemons :
        (/\ daemons[d].state = "serving"
         /\ daemons[d].stdin # <<>>
         /\ daemons'[d].stdin = Tail(daemons[d].stdin)
         /\ NoRequest(Head(daemons[d].stdin))) =>
            /\ daemons'[d].executed = daemons[d].executed
            /\ daemons'[d].written = daemons[d].written
            /\ daemons'[d].out = daemons[d].out
            /\ daemons'[d].last_id = daemons[d].last_id
            /\ daemons'[d].last = daemons[d].last

C30_NoRequestLinesIgnored == [][C30_NoRequestStep]_vars

\* A daemon that answered a first request was handed a second line after
\* its answer was read, and has read that line without parsing a request
\* from it or answering.
C30_Witness ==
    \E d \in Daemons :
        /\ hist.fed = 2
        /\ daemons[d].state = "serving"
        /\ daemons[d].stdin = <<>>
        /\ daemons[d].out = <<>>
        /\ daemons[d].written = 2
        /\ daemons[d].executed = <<1>>
        /\ daemons[d].last_id = 1
        /\ daemons[d].prev = NoRequestSeen

---------------------------------------------------------------------------
(* Claims about the daemon's responses, one for each request *)

\* Daemon d reads the line at the head of its input in this step.
ReadsLine(d) ==
    /\ daemons[d].state = "serving"
    /\ daemons[d].stdin # <<>>
    /\ daemons'[d].stdin = Tail(daemons[d].stdin)

\* The request on the line daemon d reads next is a Shutdown that passes
\* the replay check and the signature check.
AcceptedShutdown(d) ==
    /\ NextRequest(d).cmd = Shutdown
    /\ NextRequest(d).id > daemons[d].last_id
    /\ IsAuthentic(daemons[d].secret, NextRequest(d))

\* C31: for every line that parses as a request, an accepted Shutdown
\* excepted, the daemon writes one response line with the request's id, and
\* the line is in its output, after the lines written before, when the next
\* line is read; an accepted Shutdown is answered with no line.
C31_OneResponseStep ==
    \A d \in Daemons :
        (ReadsLine(d) /\ ~NoRequest(Head(daemons[d].stdin)) /\ daemons[d].stdout_open) =>
            IF AcceptedShutdown(d)
            THEN /\ daemons'[d].written = daemons[d].written
                 /\ daemons'[d].out = daemons[d].out
            ELSE /\ daemons'[d].written = daemons[d].written + 1
                 /\ Len(daemons'[d].out) = Len(daemons[d].out) + 1
                 /\ SubSeq(daemons'[d].out, 1, Len(daemons[d].out)) = daemons[d].out
                 /\ Last(daemons'[d].out).type = "response"
                 /\ Last(daemons'[d].out).id = NextRequest(d).id

C31_OneResponsePerRequest == [][C31_OneResponseStep]_vars

\* A daemon has answered two requests, the second with the id of the
\* first: both answers are in its output, in the order of the requests.
C31_Witness ==
    \E d \in Daemons :
        /\ daemons[d].written = 3
        /\ Len(daemons[d].out) = 2
        /\ daemons[d].out[1].type = "response"
        /\ daemons[d].out[1].success
        /\ daemons[d].out[2] = error_response(daemons[d].out[1].id, ReplayMessage)
        /\ daemons[d].stdin = <<>>

---------------------------------------------------------------------------
(* Claims about what the session's operations return *)

\* A run on a context in a session strategy has returned an Output.
SessionRunReturned ==
    /\ IsSessionMode(ctx.escalation)
    /\ hist.result.verb = "run"
    /\ hist.result.ok

\* C32: in a session strategy run returns an Output whose exit code is the
\* exit_code of the daemon's response, whatever its value, whose stdout and
\* stderr are the response's, and which reports success exactly when the
\* exit_code is 0.
C32_SessionRunKeepsExitCode ==
    SessionRunReturned =>
        /\ status_code(hist.result.status) = Some(hist.result.response.exit_code)
        /\ status_success(hist.result.status) <=> hist.result.response.exit_code = 0

\* What holds of the Output: its raw wait status is the response's
\* exit_code, so that it reports success exactly when the exit_code is 0,
\* its exit code is that of the response when the exit_code is 0 and None
\* when it is 1, 126 or -1.
C32_SessionRunStatusIsRaw ==
    SessionRunReturned =>
        /\ hist.result.status = hist.result.response.exit_code
        /\ status_success(hist.result.status) <=> hist.result.response.exit_code = 0
        /\ hist.result.response.exit_code \in {1, 126, -1} =>
              status_code(hist.result.status) = None

\* The verbs that end in the session's write_file, copy_file and mkdir_p.
FileVerbs == {"write_file", "copy_file", "mkdir"}

\* message ends with text.
EndsWith(message, text) ==
    /\ Len(message) >= Len(text)
    /\ SubSeq(message, Len(message) - Len(text) + 1, Len(message)) = text

\* C33: the session's write_file, copy_file and mkdir_p return Ok(())
\* exactly when the response read has success true; when it has success
\* false they return an error whose text carries the daemon's error text
\* (the words "Unknown error" for a response that has none).
C33_FileOperationStep ==
    \A t \in Threads :
        (/\ threads[t].pc = "recv"
         /\ threads[t].verb \in FileVerbs
         /\ Moves(t)
         /\ daemons[ctx.session[1].child].out # <<>>
         /\ Head(daemons[ctx.session[1].child].out).type = "response") =>
            LET response == Head(daemons[ctx.session[1].child].out)
            IN  /\ hist'.result.verb = threads[t].verb
                /\ hist'.result.ok <=> response.success
                /\ ~response.success =>
                      /\ hist'.result.error = "SessionCommunication"
                      /\ EndsWith(hist'.result.message,
                                  unwrap_or(response.error, UnknownErrorMessage))

C33_FileOperationsFollowSuccess == [][C33_FileOperationStep]_vars

\* write_file has returned the error of a write the daemon could not make.
C33_Witness ==
    /\ IsSessionMode(ctx.escalation)
    /\ hist.result.verb = "write_file"
    /\ ~hist.result.ok
    /\ hist.result.message = WriteFailedMessage

---------------------------------------------------------------------------
(* Claims about the strategies of a context *)

\* Thread t is in a privileged verb on a context in a session strategy
\* that has no session, at ensure_session.
FindsNoSession(t) ==
    /\ threads[t].pc = "ensure"
    /\ Moves(t)
    /\ IsSessionMode(ctx.escalation)
    /\ ctx.session = None

\* C34: the session is created lazily: a context made with a spawner, the
\* setting of a spawner and every step that is not a privileged verb's
\* ensure_session leave the spawner uninvoked; it is invoked, once, in the
\* ensure_session of a privileged verb called on a context in a session
\* strategy that has a spawner and no session.
C34_LazyStep ==
    /\ hist'.spawn_calls # hist.spawn_calls =>
          /\ hist'.spawn_calls = hist.spawn_calls + 1
          /\ \E t \in Threads : FindsNoSession(t) /\ ctx.spawner
    /\ \A t \in Threads :
          (FindsNoSession(t) /\ ctx.spawner) => hist'.spawn_calls = hist.spawn_calls + 1

SessionPositions == {"ensure", "lock", "send", "recv"}

\* A verb is called and returns in this step.
VerbCompletes ==
    /\ hist'.ops = hist.ops + 1
    /\ hist'.result.verb \in Verbs

\* C35: on a context whose strategy is None, Pkexec or Sudo no verb invokes
\* the spawner or sends a request to a session, a spawner or a session
\* having been set or not (the one request such a session is ever sent is
\* the Shutdown of its drop): every verb is one operation on the local OS,
\* direct or under the wrapper; and the strategy of a context never changes.
C35_LocalStep ==
    /\ ctx'.escalation = ctx.escalation
    /\ ~IsSessionMode(ctx.escalation) =>
          /\ hist'.spawn_calls = hist.spawn_calls
          /\ hist'.sent # hist.sent => hist'.shutdowns = hist.shutdowns + 1
          /\ VerbCompletes =>
                /\ hist'.local = hist.local + 1
                /\ daemons' = daemons
                /\ ctx' = ctx

C35_LocalStrategiesUseNoSession ==
    /\ [](~IsSessionMode(ctx.escalation) =>
            /\ hist.spawn_calls = 0
            /\ Len(hist.sent) <= hist.shutdowns
            /\ \A t \in Threads : threads[t].pc \notin SessionPositions)
    /\ [][C35_LocalStep]_vars

\* On a context in a one-shot wrapper strategy that holds a spawner and a
\* session, copy_file has run on the local OS.
C35_Witness ==
    /\ ctx.escalation \in {"Pkexec", "Sudo"}
    /\ ctx.spawner
    /\ ctx.session # None
    /\ hist.result.verb = "copy_file"
    /\ hist.local = 1
    /\ hist.spawn_calls = 0

---------------------------------------------------------------------------
(* Claims about a session after a failure of the protocol *)

\* A verb on the session returns in this step.
SessionVerbReturns(t) ==
    /\ threads[t].pc \in SessionPositions
    /\ threads'[t].pc = "idle"

\* The context holds the session it held, on the same daemon under the same
\* secret, and no daemon has been started.
KeepsSession ==
    /\ ctx.session # None
    /\ ctx'.session # None
    /\ ctx'.session[1].child = ctx.session[1].child
    /\ ctx'.session[1].secret = ctx.session[1].secret
    /\ Len(daemons') = Len(daemons)

\* C36: once an operation on a session has failed because the response
\* line did not parse or the daemon's output had ended, no later operation
\* on the session returns Ok, and the context keeps the session it has and
\* does not invoke the spawner for another.
C36_FatalStep ==
    hist.broken =>
        /\ \A t \in Threads : SessionVerbReturns(t) => ~hist'.result.ok
        /\ hist'.spawn_calls = hist.spawn_calls
        /\ KeepsSession

C36_ProtocolFailureIsFatal == [][C36_FatalStep]_vars

\* What holds: after such a failure the context keeps its session and does
\* not invoke the spawner again, and no operation returns Ok once the
\* daemon's output has ended; an operation that follows a line that did not
\* parse returns what the daemon answers.
C36_NoReconnectStep ==
    hist.broken =>
        /\ hist'.spawn_calls = hist.spawn_calls
        /\ KeepsSession
        /\ \A t \in Threads :
              (SessionVerbReturns(t) /\ ~Running(daemons[ctx.session[1].child])) =>
                  ~hist'.result.ok

C36_NoReconnect == [][C36_NoReconnectStep]_vars

---------------------------------------------------------------------------
(* Claims about the managed block of an fstab file *)

\* The positions of the lines of a file that are a marker.
MarkersAt(lines, marker) == { i \in 1..Len(lines) : trim(lines[i]) = marker }

\* The file holds one managed block, and the block holds the entries:
\* one begin marker, one end marker after it, and between them the comment
\* and the entries' lines.
OneManagedBlock(lines, entries) ==
    /\ Cardinality(MarkersAt(lines, MANAGED_BLOCK_BEGIN)) = 1
    /\ Cardinality(MarkersAt(lines, MANAGED_BLOCK_END)) = 1
    /\ \E b \in MarkersAt(lines, MANAGED_BLOCK_BEGIN), e \in MarkersAt(lines, MANAGED_BLOCK_END) :
          /\ b < e
          /\ SubSeq(lines, b + 1, e - 1) = <<MANAGED_BLOCK_COMMENT>> \o entries

\* Rewriting the block of the written file with the same entries gives the
\* file: update(update(c, e), e) = update(c, e), and every write after the
\* first leaves the file the first made.
RewritingIsIdempotent ==
    hist.writes >= 1 =>
        /\ update_managed_entries_content(hist.file, hist.entries) = hist.file
        /\ hist.first = Some(hist.file)

\* C37: rewriting the managed block is idempotent, and after any number of
\* writes with the same entries the file holds exactly one managed block
\* with exactly those entries.
C37_OneBlockAfterWrites ==
    /\ RewritingIsIdempotent
    /\ hist.writes >= 1 => OneManagedBlock(hist.file.lines, hist.entries)

\* C37 as it holds: rewriting is idempotent; after any number of writes with
\* the same entries, of which there is at least one, the file holds exactly
\* one managed block with exactly those entries; after writes with no entry
\* the file holds no managed block and no marker.
C37_OneBlockUnlessNoEntries ==
    /\ RewritingIsIdempotent
    /\ hist.writes >= 1 =>
          IF hist.entries # <<>>
          THEN OneManagedBlock(hist.file.lines, hist.entries)
          ELSE /\ MarkersAt(hist.file.lines, MANAGED_BLOCK_BEGIN) = {}
               /\ MarkersAt(hist.file.lines, MANAGED_BLOCK_END) = {}

\* A file that held a managed block between lines of the user's has been
\* written three times with two entries.
C37_Witness ==
    /\ hist.writes = 3
    /\ Len(hist.entries) = 2
    /\ Len(hist.file.lines) = 7
    /\ hist.file.lines[1] = "UUID=0  /  ext4  defaults  0  1"
    /\ hist.file.lines[7] = "UUID=0  /  ext4  defaults  0  1"

---------------------------------------------------------------------------
(* Claims about the ways the daemon stops serving *)

\* The request on the last line handed to the daemon.
FedRequest == request_from_line(hist.line)

\* The step hands daemon d, which is serving, a line that parses as a
\* Shutdown request.
ReadsShutdown(d) ==
    /\ daemons[d].state = "serving"
    /\ hist'.fed = hist.fed + 1
    /\ request_from_line(hist'.line).cmd = Shutdown

\* The Shutdown request handed in the step passes the replay check and the
\* signature check of daemon d.
ShutdownAccepted(d) ==
    /\ ReadsShutdown(d)
    /\ request_from_line(hist'.line).id > daemons[d].last_id
    /\ IsAuthentic(daemons[d].secret, request_from_line(hist'.line))

\* C38: a Shutdown request with a stale id or an invalid signature is
\* answered with a failure response of its id and leaves the daemon serving,
\* nothing executed and last_id as it was; the daemon leaves the serving
\* state only on an accepted Shutdown, at the end of its input, or on an
\* I/O error on its own streams (a line that is no UTF-8, a write to a
\* closed stdout).
C38_ShutdownStep ==
    \A d \in Daemons :
        /\ (ReadsShutdown(d) /\ ~ShutdownAccepted(d) /\ daemons[d].stdout_open) =>
              /\ daemons'[d].state = "serving"
              /\ daemons'[d].out # <<>>
              /\ Last(daemons'[d].out).type = "response"
              /\ ~Last(daemons'[d].out).success
              /\ Last(daemons'[d].out).id = request_from_line(hist'.line).id
              /\ daemons'[d].written = daemons[d].written + 1
              /\ daemons'[d].executed = daemons[d].executed
              /\ daemons'[d].last_id = daemons[d].last_id
        /\ (daemons[d].state = "serving" /\ daemons'[d].state # "serving") =>
              \/ /\ ShutdownAccepted(d)
                 /\ daemons'[d].code = Some(0)
              \/ /\ hist' = hist
                 /\ daemons[d].stdin = <<>>
                 /\ ~daemons[d].stdin_open
                 /\ daemons'[d].code = Some(0)
              \/ /\ hist'.fed = hist.fed + 1
                 /\ hist'.line.kind = "not_utf8" \/ ~daemons[d].stdout_open
                 /\ daemons'[d].code = Some(1)

C38_ShutdownIsChecked == [][C38_ShutdownStep]_vars

\* A daemon that ran a command was handed a Shutdown request with the id of
\* that command, signed for it: it answered with the replay failure and is
\* serving.
C38_Witness ==
    \E d \in Daemons :
        /\ daemons[d].state = "serving"
        /\ daemons[d].executed # <<>>
        /\ FedRequest.cmd = Shutdown
        /\ FedRequest.id = daemons[d].last_id
        /\ FedRequest.hmac = compute_hmac(daemons[d].secret, FedRequest.id, to_json(Shutdown))
        /\ daemons[d].out = <<error_response(FedRequest.id, ReplayMessage)>>

---------------------------------------------------------------------------
(* Claims about the end of the daemon's input *)

\* The input of daemon d is at its end: closed by its holder, every line
\* read.
AtEndOfInput(d) == daemons[d].stdin = <<>> /\ ~daemons[d].stdin_open

\* Daemon d has left the loop.
Terminated(d) == daemons[d].state \in {"dying", "exited"}

\* Once the input of a serving daemon is at its end, and once the daemon
\* has terminated, no command is executed and no line is written; the one
\* step of a serving daemon at the end of its input is its exit with
\* status 0.
C39_EndOfInputStep ==
    \A d \in Daemons :
        /\ ((daemons[d].state = "serving" /\ AtEndOfInput(d)) \/ Terminated(d)) =>
              /\ daemons'[d].executed = daemons[d].executed
              /\ daemons'[d].written = daemons[d].written
              /\ daemons'[d].out = daemons[d].out
              /\ daemons'[d].state # "serving"
        /\ (daemons[d].state = "serving" /\ AtEndOfInput(d) /\ daemons'[d] # daemons[d]) =>
              daemons'[d] = Exit(daemons[d], Some(0))

\* C39: when the daemon's input reaches end of file, the daemon leaves the
\* serving loop and terminates, without executing any further command and
\* without writing any further response.
C39_EndOfInputEndsDaemon ==
    /\ [][C39_EndOfInputStep]_vars
    /\ \A d \in {1} :
          (daemons[d].state = "serving" /\ AtEndOfInput(d)) ~> Terminated(d)

\* A daemon that ran a command, and was handed no Shutdown, has exited with
\* status 0 after its input was closed, the answer to the command the last
\* line it wrote.
C39_Witness ==
    \E d \in Daemons :
        /\ daemons[d].state = "exited"
        /\ daemons[d].code = Some(0)
        /\ ~daemons[d].stdin_open
        /\ FedRequest.cmd = MkdirP("/mnt/disk")
        /\ daemons[d].executed = <<FedRequest.id>>
        /\ daemons[d].written = 2
        /\ Last(daemons[d].out).id = FedRequest.id
        /\ Last(daemons[d].out).success

============================================================================
